---- MODULE Spec2Model ----
(***************************************************************************)
(* A model of dbd_autoSkillCheck: the Humanizer timing engine              *)
(* (dbd/utils/humanizer.py), the input injection backend                   *)
(* (dbd/utils/directkeys.py, dbd/utils/linux_uinput.py) and the two        *)
(* control loops (tui.py, app.py).                                         *)
(*                                                                         *)
(* Durations are integers in milliseconds; the fatigue multiplier is an    *)
(* integer in thousandths (1000 = 1.0).  A reading of time.monotonic() is  *)
(* held as its age, the time elapsed since it was taken, and a running     *)
(* time.sleep as the time it has left: the clock's reference point is      *)
(* undefined and the code only ever subtracts two readings.                *)
(***************************************************************************)
EXTENDS Integers, Sequences, FiniteSets, TLC

\* ------------------------------------------------------------------ bounds

\* Number of Humanizer.press calls a behaviour makes.
MaxCalls == 2
\* By how much a time.sleep may overshoot its argument.
MaxLag == 1
\* Number of Humanizer.press calls of a behaviour that fills the ring of
\* recent hold durations past its capacity.
MaxRingCalls == 7
\* Number of Humanizer.press calls two threads make between them.
MaxPairCalls == 2

\* ------------------------------------------------------------ small helpers

Min2(a, b) == IF a < b THEN a ELSE b

Max2(a, b) == IF a > b THEN a ELSE b

Abs(x) == IF x < 0 THEN -x ELSE x

SetMin(S) == CHOOSE x \in S : \A y \in S : x <= y

\* ------------------------------------------------------------- Humanizer

\* The caller threads of the Humanizer.
T1 == 1

Threads == {T1}

\* a second thread calling press on the same Humanizer
T2 == 2

ThreadPair == {T1, T2}

NoThread == 0

\* fatigue multipliers are held in thousandths
Unit == 1000

\* A complete fingerprint, every key _generate_fingerprint writes.
FpFull ==
  [ id |-> 1,
    press_mu |-> 180, press_sigma |-> 20, press_exp_mean |-> 8,
    press_min |-> 130, press_max |-> 260,
    pre_delay_mu |-> 8, pre_delay_sigma |-> 4, pre_delay_max |-> 20,
    cooldown_mu |-> 480, cooldown_sigma |-> 40, cooldown_exp_mean |-> 16,
    cooldown_min |-> 380, cooldown_max |-> 640,
    hesitation_chance |-> 70, hesitation_min |-> 15, hesitation_max |-> 50,
    anti_repeat_ms |-> 3,
    fatigue_onset |-> 1, fatigue_ramp |-> 2, fatigue_max |-> 1200,
    fatigue_wave_amp |-> 20, fatigue_wave_freq |-> 6,
    min_inter_press |-> 350 ]

\* A persisted record that passes load_fingerprint's validation ("id" and
\* "press_mu" present) and carries nothing else.
FpPartial == [ id |-> 2, press_mu |-> 180 ]

\* A complete record whose exponential-tail mean is zero.
FpZeroTail == [ FpFull EXCEPT !.id = 3, !.press_exp_mean = 0 ]

Fingerprints == { FpFull, FpPartial, FpZeroTail }

\* A complete fingerprint without spread: no Gaussian spread, no tail to speak
\* of, no pre-press delay, one short hesitation, no fatigue wave, a short minimum
\* inter-press interval. Its hold durations differ by the anti-repeat jitter
\* and the fatigue ramp alone.
FpThin ==
  [ FpFull EXCEPT !.id = 4,
      !.press_sigma = 0, !.press_exp_mean = 1,
      !.pre_delay_mu = 0, !.pre_delay_sigma = 0,
      !.cooldown_sigma = 0, !.cooldown_exp_mean = 1,
      !.hesitation_min = 2, !.hesitation_max = 2,
      !.fatigue_wave_amp = 0,
      !.min_inter_press = 2 ]

\* the thin fingerprint as the one Humanizer two threads share
FpPair == [ FpThin EXCEPT !.id = 6 ]

HasKeys(fp, keys) == keys \subseteq DOMAIN fp

\* random.gauss(mu, sigma), sampled at mu - 4 sigma, mu and mu + 4 sigma
GaussDraws(mu, sigma) == { mu + sigma * z : z \in {-4, 0, 4} }

\* random.expovariate(1.0 / mean), sampled at 0 and at a quarter of the mean
ExpDraws(mean) == { 0, mean \div 4 }

\* random.uniform(a, b), sampled at its two ends
UniformDraws(a, b) == { a, b }

\* Humanizer._fatigue_factor, given the value of the sine term's product
\* wave = fatigue_wave_amp * sin(hits * fatigue_wave_freq).
\* the ramp and the wave without the floor of line 178
FatigueUnfloored(fp, hits, wave) ==
  IF hits < fp.fatigue_onset THEN Unit
  ELSE LET progress == Min2(Unit, ((hits - fp.fatigue_onset) * Unit) \div fp.fatigue_ramp)
           base_fatigue == Unit + ((fp.fatigue_max - Unit) * progress) \div Unit
       IN  base_fatigue + wave

FatigueFactor(fp, hits, wave) ==
  IF hits < fp.fatigue_onset THEN Unit
  ELSE LET progress == Min2(Unit, ((hits - fp.fatigue_onset) * Unit) \div fp.fatigue_ramp)
           base_fatigue == Unit + ((fp.fatigue_max - Unit) * progress) \div Unit
       IN  Max2(Unit, base_fatigue + wave)

\* the values the sine term's product can take
WaveDraws(fp) == { -fp.fatigue_wave_amp, fp.fatigue_wave_amp }

\* the keys _fatigue_factor reads, for a given hit count
FatigueKeys(fp, hits) ==
  IF "fatigue_onset" \in DOMAIN fp /\ hits < fp.fatigue_onset
  THEN {"fatigue_onset"}
  ELSE {"fatigue_onset", "fatigue_ramp", "fatigue_max", "fatigue_wave_amp",
        "fatigue_wave_freq"}

\* Humanizer._pre_press_delay
PrePressDelays(fp) ==
  { Max2(0, Min2(fp.pre_delay_max, g)) :
      g \in GaussDraws(fp.pre_delay_mu, fp.pre_delay_sigma) }

\* _human_duration with the max/min of line 142 left out
UnclampedDurations(fp) ==
  { g + e :
      g \in GaussDraws(fp.press_mu, fp.press_sigma),
      e \in ExpDraws(fp.press_exp_mean) }

\* Humanizer._human_duration up to the clamp (the argument of _anti_repeat_jitter)
ClampedDurations(fp) ==
  { Max2(fp.press_min, Min2(fp.press_max, g + e)) :
      g \in GaussDraws(fp.press_mu, fp.press_sigma),
      e \in ExpDraws(fp.press_exp_mean) }

\* _anti_repeat_jitter with the shift drawn from [0, threshold] instead of
\* [threshold, 2.5 threshold]
ShortJitter(fp, recent, duration) ==
  LET threshold == fp.anti_repeat_ms
  IN  IF \E i \in 1..Len(recent) : Abs(duration - recent[i]) < threshold
      THEN { duration + sign * shift :
               shift \in UniformDraws(0, threshold), sign \in {-1, 1} }
      ELSE { duration }

\* Humanizer._anti_repeat_jitter: the first recent duration closer than the
\* threshold shifts the duration by a uniform draw with a random sign.
RECURSIVE HasNear(_, _, _)
HasNear(recent, duration, threshold) ==
  IF recent = << >> THEN FALSE
  ELSE IF Abs(duration - Head(recent)) < threshold THEN TRUE
  ELSE HasNear(Tail(recent), duration, threshold)

AntiRepeatJitter(fp, recent, duration) ==
  LET threshold == fp.anti_repeat_ms
  IN  IF HasNear(recent, duration, threshold)
      THEN { duration + sign * shift :
               shift \in UniformDraws(threshold, (threshold * 5) \div 2),
               sign \in {-1, 1} }
      ELSE { duration }

\* _human_cooldown with the max/min of line 150 left out
UnclampedCooldowns(fp) ==
  { base + jitter :
      base \in GaussDraws(fp.cooldown_mu, fp.cooldown_sigma),
      jitter \in ExpDraws(fp.cooldown_exp_mean) }

\* Humanizer._human_cooldown
HumanCooldowns(fp) ==
  { Max2(fp.cooldown_min, Min2(fp.cooldown_max, base + jitter)) :
      base \in GaussDraws(fp.cooldown_mu, fp.cooldown_sigma),
      jitter \in ExpDraws(fp.cooldown_exp_mean) }

\* Humanizer._maybe_hesitate
Hesitations(fp) ==
  {0} \cup UniformDraws(fp.hesitation_min, fp.hesitation_max)

\* the keys lines 202-205 of press read
DrawKeys ==
  {"pre_delay_max", "pre_delay_mu", "pre_delay_sigma",
   "press_mu", "press_sigma", "press_exp_mean", "press_min", "press_max",
   "anti_repeat_ms",
   "cooldown_mu", "cooldown_sigma", "cooldown_exp_mean", "cooldown_min",
   "cooldown_max"}

HesitationKeys == {"hesitation_chance", "hesitation_min", "hesitation_max"}

\* the ring keeps at most this many hold durations
MaxRecent == 6

\* a product with the fatigue multiplier
Scaled(x, fatigue) == (x * fatigue) \div Unit

NoTime == -1

\* the locals of a press call that has not drawn anything yet
NoLocals ==
  [ use_hesitation |-> FALSE, fatigue |-> 0, pre_delay |-> 0, press_dur |-> 0,
    hesitation |-> 0, cooldown |-> 0, clamped |-> 0, jittered |-> 0,
    gap |-> NoTime, hits |-> 0 ]

NoResult ==
  [ status |-> "none", cooldown |-> 0, fatigue |-> 0,
    downs |-> 0, ups |-> 0, key |-> "up" ]

VARIABLES
  h_fp,              \* Humanizer._fp
  h_hit_count,       \* Humanizer._hit_count
  h_last_press_age,  \* time since _last_press_time was stamped; NoTime: it is 0.0
  h_recent,          \* Humanizer._recent_durations
  h_lock,            \* the holder of Humanizer._lock, or NoThread
  h_pc,              \* where each caller stands in press
  h_loc,             \* the locals of each caller's press call
  h_left,            \* what is left of each caller's running time.sleep
  h_res,             \* how each caller's last press call ended
  h_calls,           \* press calls begun so far
  h_rel_age          \* time since a release primitive was last invoked; NoTime:
                     \* not since construction or reset

hvars ==
  << h_fp, h_hit_count, h_last_press_age, h_recent, h_lock, h_pc, h_loc,
     h_left, h_res, h_calls, h_rel_age >>

\* ------------------------------------------------- injection backend state

VARIABLES
  b_platform,     \* sys.platform
  b_evdev,        \* linux_uinput.EVDEV_AVAILABLE: "import evdev" succeeded
  b_pynput_env,   \* whether "from pynput.keyboard import ..." can succeed
  b_pc,           \* how far the import of directkeys has got
  b_pynput,       \* directkeys.pynput_available
  b_vc,           \* linux_uinput._vcontroller
  b_uinput_dev,   \* directkeys.uinput_dev: does it name the controller
  b_mode,         \* directkeys.ACTIVE_INPUT_MODE
  b_variant,      \* which definition of PressKey/ReleaseKey was executed
  b_created,      \* how each _create_device call ended, in order
  b_call,         \* the last PressKey/ReleaseKey call and how it ended
  b_ncalls        \* PressKey/ReleaseKey calls made so far

bvars ==
  << b_platform, b_evdev, b_pynput_env, b_pc, b_pynput, b_vc, b_uinput_dev,
     b_mode, b_variant, b_created, b_call, b_ncalls >>

\* ----------------------------------------------------- control loop state

VARIABLES
  l_ui,             \* which program runs: "tui" (tui.py) or "web" (app.py)
  l_hit_ante,       \* the configured ante-frontier delay, in ms
  t_pc,             \* tui: where DBDAutoSkillCheck.run stands
  t_running,        \* tui: self.running
  t_ai_model,       \* tui: self.ai_model is not None
  t_iter,           \* tui: what the iteration in flight has got from predict
  t_stop,           \* tui: SIGINT was handled while the session was RUNNING
  a_pc,             \* web: where the monitor generator stands
  a_ai_model,       \* web: the global ai_model (0: None, else the object)
  a_model_instance, \* web: monitor's local model_instance (0: no frame alive)
  a_iter,           \* web: what the iteration in flight has got from predict
  a_stop,           \* web: STOP was clicked while the session was RUNNING
  a_runs            \* web: AI_model objects built so far

lvars ==
  << l_ui, l_hit_ante, t_pc, t_running, t_ai_model, t_iter, t_stop,
     a_pc, a_ai_model, a_model_instance, a_iter, a_stop, a_runs >>

\* ----------------------------------------------- fingerprint file state

VARIABLES
  f_file,      \* the state of humanizer_fingerprint.json
  f_results,   \* how each load_fingerprint call ended, in order
  f_nextid     \* the id the next generated fingerprint gets

fvars == << f_file, f_results, f_nextid >>

\* ------------------------------------------------------- observer state

VARIABLES
  r_hist,      \* the hold durations of the presses completed since
               \* construction or the last reset, oldest first
  r_reset,     \* whether reset has been called
  q_in,        \* the arguments a function is evaluated on
  q_out        \* the value it gave

rvars == << r_hist, r_reset >>

qvars == << q_in, q_out >>

\* ------------------------------------------- threads of the terminal UI

VARIABLES
  u_wayland,   \* platform_info["is_wayland"]
  u_main,      \* where the main thread stands in main() and run()
  u_ui,        \* where the UI thread stands in ui_update_loop
  u_consent,   \* where the consent thread stands in _send_dummy_input
  u_running,   \* DBDAutoSkillCheck.running
  u_lock,      \* the thread inside a "with self.lock" block
  u_log,       \* the accesses to shared session values made while the
               \* loop and the UI thread are both alive
  u_early,     \* SIGINT came after run() had begun and before the loop
  u_frames,    \* frames pulled and classified
  u_pressed    \* the loop has invoked Humanizer.press

uvars == << u_wayland, u_main, u_ui, u_consent, u_running, u_lock, u_log,
            u_early, u_frames, u_pressed >>

vars == << hvars, bvars, lvars, fvars, rvars, qvars, uvars >>

\* Ages are followed up to the minimum inter-press interval: all the code asks
\* of one is whether it is below that.
AgeCap(fp) == IF "min_inter_press" \in DOMAIN fp THEN fp.min_inter_press ELSE 0

Older(fp, age, d) == IF age = NoTime THEN NoTime ELSE Min2(AgeCap(fp), age + d)

\* Humanizer.__init__ with a given or loaded fingerprint
HInit ==
  /\ h_fp \in Fingerprints
  /\ h_hit_count = 0
  /\ h_last_press_age = NoTime
  /\ h_recent = << >>
  /\ h_lock = NoThread
  /\ h_pc = [t \in Threads |-> "idle"]
  /\ h_loc = [t \in Threads |-> NoLocals]
  /\ h_left = [t \in Threads |-> 0]
  /\ h_res = [t \in Threads |-> NoResult]
  /\ h_calls = 0
  /\ h_rel_age = NoTime

Idle(t) == h_pc[t] \in {"idle", "returned", "raised"}

\* an exception leaves press after so many invocations of the press and the
\* release primitive, with the key up or down: the locals are gone, the lock
\* is not held
RaiseAt(t, downs, ups, key) ==
  /\ h_pc' = [h_pc EXCEPT ![t] = "raised"]
  /\ h_loc' = [h_loc EXCEPT ![t] = NoLocals]
  /\ h_res' = [h_res EXCEPT ![t] =
       [NoResult EXCEPT !.status = "raised", !.downs = downs, !.ups = ups,
                        !.key = key]]

\* an exception leaves press before a primitive has been invoked
Raise(t) == RaiseAt(t, 0, 0, "up")

\* the press calls a behaviour makes with a given fingerprint
CallBudget(fp) ==
  IF fp.id = FpThin.id THEN MaxRingCalls
  ELSE IF fp.id = FpPair.id THEN MaxPairCalls
  ELSE MaxCalls

\* press, line 200: fatigue = self._fatigue_factor()
PressBegin(t) ==
  /\ Idle(t)
  /\ h_calls < CallBudget(h_fp)
  /\ h_calls' = h_calls + 1
  /\ \E use_hesitation \in BOOLEAN :
       IF ~HasKeys(h_fp, FatigueKeys(h_fp, h_hit_count))
            \/ (h_hit_count >= h_fp.fatigue_onset /\ h_fp.fatigue_ramp = 0)
       THEN Raise(t)
       ELSE \E wave \in WaveDraws(h_fp) :
              /\ h_pc' = [h_pc EXCEPT ![t] = "draw"]
              /\ h_loc' = [h_loc EXCEPT ![t] =
                   [NoLocals EXCEPT !.use_hesitation = use_hesitation,
                                    !.fatigue = FatigueFactor(h_fp, h_hit_count, wave)]]
              /\ h_res' = [h_res EXCEPT ![t] = NoResult]
  /\ UNCHANGED << h_fp, h_hit_count, h_last_press_age, h_recent, h_lock,
                  h_left, h_rel_age >>

\* press, lines 202-205: the pre-press delay, the hold duration, the
\* hesitation and the cooldown are drawn; they read the fingerprint and the
\* ring without the lock.
PressDraw(t) ==
  /\ h_pc[t] = "draw"
  /\ LET loc == h_loc[t]
         keys == DrawKeys \cup (IF loc.use_hesitation THEN HesitationKeys ELSE {})
     IN  IF ~HasKeys(h_fp, keys)
              \/ h_fp.press_exp_mean = 0 \/ h_fp.cooldown_exp_mean = 0
         THEN Raise(t)
         ELSE \E pre \in PrePressDelays(h_fp), clamped \in ClampedDurations(h_fp),
                 cool \in HumanCooldowns(h_fp),
                 hes \in (IF loc.use_hesitation THEN Hesitations(h_fp) ELSE {0}) :
                \E jittered \in AntiRepeatJitter(h_fp, h_recent, clamped) :
                  /\ h_loc' = [h_loc EXCEPT ![t] =
                       [loc EXCEPT !.pre_delay = Scaled(pre, loc.fatigue),
                                   !.clamped = clamped,
                                   !.jittered = jittered,
                                   !.press_dur = Scaled(jittered, loc.fatigue),
                                   !.hesitation = hes,
                                   !.cooldown = Scaled(cool, loc.fatigue)]]
                  /\ h_pc' = [h_pc EXCEPT ![t] = "guard"]
                  /\ UNCHANGED h_res
  /\ UNCHANGED << h_fp, h_hit_count, h_last_press_age, h_recent, h_lock,
                  h_left, h_calls, h_rel_age >>

\* press, lines 207-212: under the lock, sleep what is left of the minimum
\* inter-press interval since _last_press_time (0.0: no press yet).
PressGuard(t) ==
  /\ h_pc[t] = "guard"
  /\ h_lock = NoThread
  /\ IF ~HasKeys(h_fp, {"min_inter_press"})
     THEN Raise(t) /\ UNCHANGED << h_lock, h_left >>
     ELSE LET since_last == h_last_press_age
              guard == h_fp.min_inter_press
          IN  IF h_last_press_age # NoTime /\ since_last < guard
              THEN /\ h_lock' = t
                   /\ h_left' = [h_left EXCEPT ![t] = guard - since_last]
                   /\ h_pc' = [h_pc EXCEPT ![t] = "guard_sleep"]
                   /\ UNCHANGED << h_loc, h_res >>
              ELSE /\ h_pc' = [h_pc EXCEPT ![t] = "wait"]
                   /\ UNCHANGED << h_lock, h_left, h_loc, h_res >>
  /\ UNCHANGED << h_fp, h_hit_count, h_last_press_age, h_recent, h_calls,
                  h_rel_age >>

\* the guard's time.sleep returns and the with block releases the lock
GuardWake(t) ==
  /\ h_pc[t] = "guard_sleep"
  /\ h_left[t] = 0
  /\ h_lock' = NoThread
  /\ h_pc' = [h_pc EXCEPT ![t] = "wait"]
  /\ UNCHANGED << h_fp, h_hit_count, h_last_press_age, h_recent, h_loc, h_left,
                  h_res, h_calls, h_rel_age >>

\* press, lines 214-216: wait = pre_delay + hesitation, slept when over 1 ms
PressWait(t) ==
  /\ h_pc[t] = "wait"
  /\ LET wait == h_loc[t].pre_delay + h_loc[t].hesitation
     IN  IF wait > 1
         THEN /\ h_left' = [h_left EXCEPT ![t] = wait]
              /\ h_pc' = [h_pc EXCEPT ![t] = "wait_sleep"]
         ELSE /\ h_pc' = [h_pc EXCEPT ![t] = "down"]
              /\ UNCHANGED h_left
  /\ UNCHANGED << h_fp, h_hit_count, h_last_press_age, h_recent, h_lock,
                  h_loc, h_res, h_calls, h_rel_age >>

WaitWake(t) ==
  /\ h_pc[t] = "wait_sleep"
  /\ h_left[t] = 0
  /\ h_pc' = [h_pc EXCEPT ![t] = "down"]
  /\ UNCHANGED << h_fp, h_hit_count, h_last_press_age, h_recent, h_lock,
                  h_loc, h_left, h_res, h_calls, h_rel_age >>

\* what a supplied primitive can do: return, or raise
PrimitiveOutcomes == {"ok", "raise"}

\* press, lines 218-219: press_fn(key_code), then time.sleep(press_dur)
PressDown(t) ==
  /\ h_pc[t] = "down"
  /\ \E outcome \in PrimitiveOutcomes :
       IF outcome = "raise"
       THEN RaiseAt(t, 1, 0, "up") /\ UNCHANGED h_left
       ELSE /\ h_loc' = [h_loc EXCEPT ![t].gap = h_rel_age]
            /\ h_left' = [h_left EXCEPT ![t] = Max2(0, h_loc[t].press_dur)]
            /\ h_pc' = [h_pc EXCEPT ![t] = "hold"]
            /\ UNCHANGED h_res
  /\ UNCHANGED << h_fp, h_hit_count, h_last_press_age, h_recent, h_lock,
                  h_calls, h_rel_age >>

\* press, line 220: the hold sleep is over and release_fn(key_code) is invoked
PressUp(t) ==
  /\ h_pc[t] = "hold"
  /\ h_left[t] = 0
  /\ h_rel_age' = 0
  /\ \E outcome \in PrimitiveOutcomes :
       IF outcome = "raise"
       THEN RaiseAt(t, 1, 1, "down")
       ELSE /\ h_pc' = [h_pc EXCEPT ![t] = "record"]
            /\ UNCHANGED << h_loc, h_res >>
  /\ UNCHANGED << h_fp, h_hit_count, h_last_press_age, h_recent, h_lock,
                  h_left, h_calls >>

\* list.append followed by pop(0) once the ring is over _max_recent
\* a ring that drops the entry just pushed when it is full
PushDropsNewest(recent, d) ==
  IF Len(recent) >= MaxRecent THEN recent ELSE Append(recent, d)

Push(recent, d) ==
  LET appended == Append(recent, d)
  IN  IF Len(appended) > MaxRecent THEN Tail(appended) ELSE appended

\* press, lines 222-229: under the lock, count the hit, stamp the time, push
\* the hold duration; return the cooldown.
PressRecord(t) ==
  /\ h_pc[t] = "record"
  /\ h_lock = NoThread
  /\ h_hit_count' = h_hit_count + 1
  /\ h_last_press_age' = 0
  /\ h_recent' = Push(h_recent, h_loc[t].press_dur)
  /\ h_res' = [h_res EXCEPT ![t] =
       [status |-> "returned", cooldown |-> h_loc[t].cooldown,
        fatigue |-> h_loc[t].fatigue, downs |-> 1, ups |-> 1, key |-> "up"]]
  /\ h_loc' = [h_loc EXCEPT ![t] = NoLocals]
  /\ h_pc' = [h_pc EXCEPT ![t] = "returned"]
  /\ UNCHANGED << h_fp, h_lock, h_left, h_calls, h_rel_age >>

\* a reset that leaves _last_press_time as it is
ResetKeepsStamp(age) == age

\* reset, line 129: self._last_press_time = 0.0
ResetStamp(age) == NoTime

\* Humanizer.reset, called between two press calls
Reset(t) ==
  /\ Idle(t)
  /\ h_lock = NoThread
  /\ h_hit_count # 0 \/ h_last_press_age # NoTime \/ h_recent # << >>
  /\ h_hit_count' = 0
  /\ h_last_press_age' = ResetStamp(h_last_press_age)
  /\ h_recent' = << >>
  /\ h_rel_age' = NoTime
  /\ UNCHANGED << h_fp, h_lock, h_pc, h_loc, h_left, h_res, h_calls >>

\* the sleeps a caller may make between two press calls: the cooldown it was
\* handed, or half the minimum inter-press interval
CallerSleeps(t) ==
  {h_fp.min_inter_press \div 2} \cup
  (IF h_res[t].status = "returned" THEN {h_res[t].cooldown} ELSE {})

\* the caller sleeps between two press calls (time.sleep(cooldown) in the loops)
CallerSleep(t) ==
  /\ h_pc[t] \in {"returned", "raised"}
  /\ h_calls < CallBudget(h_fp)
  /\ HasKeys(h_fp, {"min_inter_press"})
  /\ \E d \in CallerSleeps(t) :
       h_left' = [h_left EXCEPT ![t] = d]
  /\ h_pc' = [h_pc EXCEPT ![t] = "caller_sleep"]
  /\ UNCHANGED << h_fp, h_hit_count, h_last_press_age, h_recent, h_lock,
                  h_loc, h_res, h_calls, h_rel_age >>

CallerWake(t) ==
  /\ h_pc[t] = "caller_sleep"
  /\ h_left[t] = 0
  /\ h_pc' = [h_pc EXCEPT ![t] = "idle"]
  /\ UNCHANGED << h_fp, h_hit_count, h_last_press_age, h_recent, h_lock,
                  h_loc, h_left, h_res, h_calls, h_rel_age >>

Sleeping(t) ==
  h_pc[t] \in {"guard_sleep", "wait_sleep", "hold", "caller_sleep"}

\* Time passes while every caller that has something to do sleeps: as much as
\* the shortest running sleep has left, or up to MaxLag more.
Tick ==
  /\ \E t \in Threads : Sleeping(t) /\ h_left[t] > 0
  /\ \A t \in Threads : Sleeping(t) /\ h_left[t] > 0
  /\ LET shortest == SetMin({ h_left[t] : t \in Threads })
     IN  \E lag \in 0..MaxLag :
           /\ h_left' = [t \in Threads |-> Max2(0, h_left[t] - (shortest + lag))]
           /\ h_last_press_age' = Older(h_fp, h_last_press_age, shortest + lag)
           /\ h_rel_age' = Older(h_fp, h_rel_age, shortest + lag)
  /\ UNCHANGED << h_fp, h_hit_count, h_recent, h_lock, h_pc, h_loc, h_res,
                  h_calls >>

\* --- press called by several threads

\* a with block entered without waiting for the lock
EnterUnlocked(lock, t) == TRUE

\* with self._lock: the block is entered when no thread holds the lock
Enter(lock, t) == lock = NoThread

\* press, lines 222-223 at the grain of the interpreter: the lock is taken
\* and self._hit_count is read for the += 1
RecordRead(t) ==
  /\ h_pc[t] = "record"
  /\ Enter(h_lock, t)
  /\ h_lock' = t
  /\ h_loc' = [h_loc EXCEPT ![t].hits = h_hit_count]
  /\ h_pc' = [h_pc EXCEPT ![t] = "record_write"]
  /\ UNCHANGED << h_fp, h_hit_count, h_last_press_age, h_recent, h_left,
                  h_res, h_calls, h_rel_age >>

\* press, lines 223-229: the sum is stored, the time stamped, the hold
\* duration pushed; the lock is released and the cooldown returned
RecordWrite(t) ==
  /\ h_pc[t] = "record_write"
  /\ h_hit_count' = h_loc[t].hits + 1
  /\ h_last_press_age' = 0
  /\ h_recent' = Push(h_recent, h_loc[t].press_dur)
  /\ h_lock' = NoThread
  /\ h_res' = [h_res EXCEPT ![t] =
       [status |-> "returned", cooldown |-> h_loc[t].cooldown,
        fatigue |-> h_loc[t].fatigue, downs |-> 1, ups |-> 1, key |-> "up"]]
  /\ h_loc' = [h_loc EXCEPT ![t] = NoLocals]
  /\ h_pc' = [h_pc EXCEPT ![t] = "returned"]
  /\ UNCHANGED << h_fp, h_left, h_calls, h_rel_age >>

\* the threads whose sleep is running
Sleepers == { t \in ThreadPair : Sleeping(t) /\ h_left[t] > 0 }

\* Time passes for several threads: by as much as the shortest running sleep
\* has left, or up to MaxLag more, while no sleep that is over waits to
\* return. A thread that is not sleeping is between two statements and may
\* be as slow as that.
TickPair ==
  /\ Sleepers # {}
  /\ \A t \in ThreadPair : Sleeping(t) => h_left[t] > 0
  /\ LET shortest == SetMin({ h_left[t] : t \in Sleepers })
     IN  \E lag \in 0..MaxLag :
           /\ h_left' = [t \in ThreadPair |->
                IF t \in Sleepers THEN Max2(0, h_left[t] - (shortest + lag))
                ELSE h_left[t]]
           /\ h_last_press_age' = Older(h_fp, h_last_press_age, shortest + lag)
           /\ h_rel_age' = Older(h_fp, h_rel_age, shortest + lag)
  /\ UNCHANGED << h_fp, h_hit_count, h_recent, h_lock, h_pc, h_loc, h_res,
                  h_calls >>

\* ------------------------------------------------- claims on the Humanizer

\* a caller whose press primitive has been invoked and has returned
Held(t) == h_pc[t] = "hold"

\* a caller that has just drawn its durations (lines 202-205 done)
Drawn(t) == h_pc[t] = "guard"

JitterSlack(fp) == (fp.anti_repeat_ms * 5) \div 2

\* C1: with no reset in between, the press primitive of every call after the
\* first is invoked at least min_inter_press after the previous call invoked
\* its release primitive.
C1_MinInterPress ==
  \A t \in Threads :
    (Held(t) /\ h_loc[t].gap # NoTime) => h_loc[t].gap >= h_fp.min_inter_press

C3_CooldownInBand ==
  \A t \in Threads :
    h_res[t].status = "returned" =>
      /\ h_res[t].cooldown >= h_fp.cooldown_min
      /\ h_res[t].cooldown <= h_fp.cooldown_max

\* C3 as amended: the cooldown returned is a value of [cooldown_min,
\* cooldown_max] times the call's fatigue multiplier f, with
\* 1.0 <= f <= max(1.0, fatigue_max + fatigue_wave_amp); it lies within
\* [cooldown_min, cooldown_max] when f is 1.0.
C3_CooldownInStretchedBand ==
  \A t \in Threads :
    h_res[t].status = "returned" =>
      LET f == h_res[t].fatigue
      IN  /\ f >= Unit
          /\ f <= Max2(Unit, h_fp.fatigue_max + h_fp.fatigue_wave_amp)
          /\ h_res[t].cooldown >= Scaled(h_fp.cooldown_min, f)
          /\ h_res[t].cooldown <= Scaled(h_fp.cooldown_max, f)

\* a press past the fatigue onset returns a cooldown over cooldown_max
C3_Witness ==
  \E t \in Threads :
    /\ h_res[t].status = "returned"
    /\ h_res[t].fatigue > Unit
    /\ h_res[t].cooldown > h_fp.cooldown_max

Last(seq) == seq[Len(seq)]

\* the clamped raw duration a caller has drawn is within anti_repeat_ms of the
\* duration recorded for the previous press
NearPrevious(t) ==
  /\ Drawn(t)
  /\ h_recent # << >>
  /\ Abs(h_loc[t].clamped - Last(h_recent)) < h_fp.anti_repeat_ms

\* C4 as claimed: when the clamped raw hold duration lies within
\* anti_repeat_ms of the duration recorded for the previous press, the duration
\* after jitter differs from that recorded duration by at least anti_repeat_ms.
C4_JitterSeparates ==
  \A t \in Threads :
    NearPrevious(t) =>
      Abs(h_loc[t].jittered - Last(h_recent)) >= h_fp.anti_repeat_ms

\* C4 as amended: in that case the duration after jitter is the clamped one
\* moved by between anti_repeat_ms and 2.5 anti_repeat_ms, and it differs from
\* the duration recorded for the previous press (by more than zero, not
\* always by anti_repeat_ms).
C4_JitterMoves ==
  \A t \in Threads :
    NearPrevious(t) =>
      /\ h_loc[t].jittered # Last(h_recent)
      /\ Abs(h_loc[t].jittered - h_loc[t].clamped) >= h_fp.anti_repeat_ms
      /\ Abs(h_loc[t].jittered - h_loc[t].clamped) <= JitterSlack(h_fp)

\* a duration drawn next to, not equal to, the previous one has been jittered
C4_Witness ==
  \E t \in Threads :
    /\ NearPrevious(t)
    /\ h_loc[t].clamped # Last(h_recent)
    /\ h_loc[t].jittered # h_loc[t].clamped

\* C5: press never raises to its caller, whatever the fingerprint and whatever
\* the primitives do.
C5_PressNeverRaises ==
  \A t \in Threads : h_pc[t] # "raised"

\* ------------------------------------------------------ injection backend

\* linux_uinput.HARDWARE_DB: (vendor id, product id, device name)
HARDWARE_DB ==
  << [vid |-> 1133, pid |-> 49977, name |-> "Logitech G Pro Gaming Keyboard"],
     [vid |-> 1133, pid |-> 49983, name |-> "Logitech G815 RGB Mechanical Gaming Keyboard"],
     [vid |-> 5426, pid |-> 515, name |-> "Razer BlackWidow Chroma"],
     [vid |-> 5426, pid |-> 542, name |-> "Razer Ornata Chroma"],
     [vid |-> 6940, pid |-> 6931, name |-> "Corsair K70 RGB MK.2 Mechanical Gaming Keyboard"],
     [vid |-> 6940, pid |-> 6957, name |-> "Corsair K95 RGB PLATINUM XT"],
     [vid |-> 2385, pid |-> 5796, name |-> "HyperX Alloy FPS Pro Mechanical Gaming Keyboard"],
     [vid |-> 4152, pid |-> 5648, name |-> "SteelSeries Apex Pro"],
     [vid |-> 1118, pid |-> 219, name |-> "Microsoft Natural Ergonomic Keyboard 4000"],
     [vid |-> 1118, pid |-> 2040, name |-> "Microsoft Sidewinder X4 Keyboard"] >>

\* the name suffixes of _create_device
Suffixes == << "", " (USB)", " Gaming Device", " Interface", " v2" >>

Platforms == {"win32", "linux", "darwin"}

\* the key constants directkeys exports that the program and its self-test use
Keys == {"SPACE", "SHIFT", "A"}

\* how UInput(...) can end: a device, PermissionError, any other exception
CreateOutcomes == {"ok", "permission", "error"}

\* _vcontroller = None: no controller has been built
NoController ==
  [built |-> FALSE, uinput |-> "none", device_name |-> << "", "" >>, vid |-> 0, pid |-> 0]

\* the controller __init__ leaves before _create_device has run
BlankController == [NoController EXCEPT !.built = TRUE, !.device_name = << "Unknown", "" >>]

\* LinuxVirtualController._create_device: draw a persona and a suffix, then
\* UInput(...); device_name is assigned before UInput can raise.
CreateDevice(persona, suffix, outcome) ==
  [ built |-> TRUE,
    uinput |-> IF outcome = "ok" THEN "open" ELSE "none",
    device_name |-> << persona.name, suffix >>,
    vid |-> IF outcome = "ok" THEN persona.vid ELSE 0,
    pid |-> IF outcome = "ok" THEN persona.pid ELSE 0 ]

\* __init__ without the PermissionError handler of lines 55-59 and with the
\* second handler narrowed to OSError's other subclasses: a PermissionError
\* leaves __init__
InitLetsPermissionOut(outcome) ==
  IF outcome = "ok" THEN "created"
  ELSE IF outcome = "permission" THEN "raised"
  ELSE "caught"

\* LinuxVirtualController.__init__, lines 53-62: how the try statement around
\* _create_device ends for each way UInput(...) can end. Both handlers set
\* self.uinput = None and return.
InitHandles(outcome) ==
  IF outcome = "ok" THEN "created"
  ELSE IF outcome = "permission" THEN "caught"
  ELSE "caught"

\* LinuxVirtualController.is_active
IsActive(vc) == vc.uinput # "none"

\* the selection with the tests of lines 123 and 142 swapped: the user-level
\* library is preferred to the kernel-level device
SelectUserFirst(platform, uinput_dev, pynput_available) ==
  IF platform = "win32" THEN "osapi"
  ELSE IF pynput_available THEN "user"
  ELSE IF uinput_dev THEN "kernel"
  ELSE "noop"

\* directkeys, lines 123-163: which PressKey/ReleaseKey pair is defined
SelectVariant(platform, uinput_dev, pynput_available) ==
  IF platform = "win32" THEN "osapi"
  ELSE IF uinput_dev THEN "kernel"
  ELSE IF pynput_available THEN "user"
  ELSE "noop"

\* directkeys, lines 90 and 158-163: ACTIVE_INPUT_MODE
ModeString(variant) ==
  CASE variant = "osapi" -> "Windows API (Standard)"
    [] variant = "kernel" -> "Linux Kernel (Safe)"
    [] variant = "user" -> "Linux User (Standard)"
    [] OTHER -> "None"

NoCall == [fn |-> "none", key |-> "none", ended |-> "none"]

\* The process starts: the platform and what can be imported on it are given.
\* evdev is a Linux-only package.
BInit ==
  /\ b_platform \in Platforms
  /\ b_evdev \in (IF b_platform = "linux" THEN BOOLEAN ELSE {FALSE})
  /\ b_pynput_env \in BOOLEAN
  /\ b_pc = "start"
  /\ b_pynput = FALSE
  /\ b_vc = NoController
  /\ b_uinput_dev = FALSE
  /\ b_mode = "unset"
  /\ b_variant = "unset"
  /\ b_created = << >>
  /\ b_call = NoCall
  /\ b_ncalls = 0

\* directkeys on win32, lines 10-90: SendInput is bound, PressKey/ReleaseKey
\* are defined over it
ImportWin32 ==
  /\ b_pc = "start"
  /\ b_platform = "win32"
  /\ b_variant' = SelectVariant(b_platform, b_uinput_dev, b_pynput)
  /\ b_mode' = ModeString(b_variant')
  /\ b_pc' = "ready"
  /\ UNCHANGED << b_platform, b_evdev, b_pynput_env, b_pynput, b_vc,
                  b_uinput_dev, b_created, b_call, b_ncalls >>

\* directkeys, lines 94-110: try the pynput import
ImportPynput ==
  /\ b_pc = "start"
  /\ b_platform # "win32"
  /\ b_pynput' = b_pynput_env
  /\ b_pc' = "probe"
  /\ UNCHANGED << b_platform, b_evdev, b_pynput_env, b_vc, b_uinput_dev,
                  b_mode, b_variant, b_created, b_call, b_ncalls >>

\* get_controller building a controller again whenever the one it holds has
\* no device
GetControllerRetry(vc, created, persona, suffix, outcome) ==
  IF vc.built /\ vc.uinput # "none"
  THEN [vc |-> vc, created |-> created, raised |-> FALSE]
  ELSE IF ~b_evdev THEN [vc |-> BlankController, created |-> created, raised |-> FALSE]
  ELSE [ vc |-> CreateDevice(persona, suffix, outcome),
         created |-> Append(created, outcome),
         raised |-> FALSE ]

\* linux_uinput.get_controller: the singleton is built on the first call only.
\* Yields the controller, the _create_device outcomes so far, and whether an
\* exception left __init__.
GetController(vc, created, persona, suffix, outcome) ==
  IF vc.built THEN [vc |-> vc, created |-> created, raised |-> FALSE]
  ELSE IF ~b_evdev THEN [vc |-> BlankController, created |-> created, raised |-> FALSE]
  ELSE LET device == CreateDevice(persona, suffix, outcome)
           ends == InitHandles(outcome)
       IN  [ vc |-> IF ends = "raised" THEN NoController
                    ELSE IF ends = "caught" THEN [device EXCEPT !.uinput = "none"]
                    ELSE device,
             created |-> Append(created, outcome),
             raised |-> ends = "raised" ]

\* directkeys, lines 112-121: on Linux, ask for the controller and keep it
\* when it is active. Only ImportError is caught there.
ProbeUinput ==
  /\ b_pc = "probe"
  /\ IF b_platform = "linux"
     THEN \E i \in 1..Len(HARDWARE_DB), j \in 1..Len(Suffixes),
             outcome \in CreateOutcomes :
            LET got == GetController(b_vc, b_created, HARDWARE_DB[i],
                                     Suffixes[j], outcome)
            IN  /\ b_vc' = got.vc
                /\ b_created' = got.created
                /\ IF got.raised
                   THEN b_pc' = "import_raised" /\ UNCHANGED b_uinput_dev
                   ELSE b_pc' = "define" /\ b_uinput_dev' = IsActive(got.vc)
     ELSE /\ b_pc' = "define"
          /\ UNCHANGED << b_vc, b_created, b_uinput_dev >>
  /\ UNCHANGED << b_platform, b_evdev, b_pynput_env, b_pynput, b_mode,
                  b_variant, b_call, b_ncalls >>

\* directkeys, lines 123-163: define PressKey/ReleaseKey and the mode string
DefineKeys ==
  /\ b_pc = "define"
  /\ b_variant' = SelectVariant(b_platform, b_uinput_dev, b_pynput)
  /\ b_mode' = ModeString(b_variant')
  /\ b_pc' = "ready"
  /\ UNCHANGED << b_platform, b_evdev, b_pynput_env, b_pynput, b_vc,
                  b_uinput_dev, b_created, b_call, b_ncalls >>

\* what the operating system or the library under a primitive can do
OsOutcomes == {"ok", "fail"}

\* number of PressKey/ReleaseKey calls a behaviour makes
MaxKeyCalls == 3

\* the code the kernel-level PressKey/ReleaseKey hand to UInput.write:
\* directkeys maps SPACE to 'space' and SHIFT to 'shift' and passes any other
\* key on; LinuxVirtualController.press/release turn 'space' into
\* ecodes.KEY_SPACE and pass anything else on as it is.
KernelTarget(key) == IF key = "SPACE" THEN "KEY_SPACE" ELSE "not_an_ecode"

\* How a PressKey or ReleaseKey call ends.
\*   osapi:  _check_count raises WinError when SendInput returns 0
\*   kernel: UInput.write raises on a code that is no integer, and on a failed
\*           write to the device; nothing catches either
\*   user:   whatever pynput's Controller raises passes through
\*   noop:   a print, or pass
BackendCall(variant, vc, key, os) ==
  CASE variant = "osapi" -> IF os = "ok" THEN "returned" ELSE "raised"
    [] variant = "kernel" ->
         IF vc.uinput = "none" THEN "returned"
         ELSE IF KernelTarget(key) = "not_an_ecode" THEN "raised"
         ELSE IF os = "ok" THEN "returned" ELSE "raised"
    [] variant = "user" -> IF os = "ok" THEN "returned" ELSE "raised"
    [] OTHER -> "returned"

\* directkeys.PressKey(key)
PressKey ==
  /\ b_pc = "ready"
  /\ b_ncalls < MaxKeyCalls
  /\ b_ncalls' = b_ncalls + 1
  /\ \E key \in Keys, os \in OsOutcomes :
       b_call' = [fn |-> "PressKey", key |-> key,
                  ended |-> BackendCall(b_variant, b_vc, key, os)]
  /\ UNCHANGED << b_platform, b_evdev, b_pynput_env, b_pc, b_pynput, b_vc,
                  b_uinput_dev, b_mode, b_variant, b_created >>

\* directkeys.ReleaseKey(key)
ReleaseKey ==
  /\ b_pc = "ready"
  /\ b_ncalls < MaxKeyCalls
  /\ b_ncalls' = b_ncalls + 1
  /\ \E key \in Keys, os \in OsOutcomes :
       b_call' = [fn |-> "ReleaseKey", key |-> key,
                  ended |-> BackendCall(b_variant, b_vc, key, os)]
  /\ UNCHANGED << b_platform, b_evdev, b_pynput_env, b_pc, b_pynput, b_vc,
                  b_uinput_dev, b_mode, b_variant, b_created >>

\* linux_uinput.get_controller(), called again once directkeys is imported
CallGetController ==
  /\ b_pc = "ready"
  /\ b_platform = "linux"
  /\ b_ncalls < MaxKeyCalls
  /\ b_ncalls' = b_ncalls + 1
  /\ \E i \in 1..Len(HARDWARE_DB), j \in 1..Len(Suffixes),
        outcome \in CreateOutcomes :
       LET got == GetController(b_vc, b_created, HARDWARE_DB[i],
                                Suffixes[j], outcome)
       IN  /\ b_vc' = got.vc
           /\ b_created' = got.created
           /\ b_call' = [fn |-> "get_controller", key |-> "none",
                         ended |-> IF got.raised THEN "raised" ELSE "returned"]
  /\ UNCHANGED << b_platform, b_evdev, b_pynput_env, b_pc, b_pynput,
                  b_uinput_dev, b_mode, b_variant >>

\* The program shuts down: the finally blocks of tui.py (lines 743-755) and
\* app.py (lines 351-353, cleanup) drop the AI model and print; neither
\* they nor anything else calls LinuxVirtualController.close, so the
\* controller is left as it is.
Shutdown ==
  /\ b_pc = "ready"
  /\ b_pc' = "exited"
  /\ UNCHANGED << b_platform, b_evdev, b_pynput_env, b_pynput, b_vc,
                  b_uinput_dev, b_mode, b_variant, b_created, b_call,
                  b_ncalls >>

\* ----------------------------------------------------- claims on the backend

\* C6: PressKey and ReleaseKey never raise to the caller, whichever variant
\* was selected, for every key and every outcome of the underlying call.
C6_KeysNeverRaise == b_call.ended # "raised"

\* the kernel-level device was created
KernelAvailable == b_created # << >> /\ Last(b_created) = "ok"

\* is a variant available on this machine
Available(variant) ==
  CASE variant = "kernel" -> KernelAvailable
    [] variant = "osapi" -> b_platform = "win32"
    [] variant = "user" -> b_pynput_env
    [] OTHER -> TRUE

VariantOrder == << "kernel", "osapi", "user", "noop" >>

FirstAvailable ==
  VariantOrder[SetMin({ i \in 1..Len(VariantOrder) : Available(VariantOrder[i]) })]

\* C7: the import never fails; once done, the active variant is the first
\* available one in the order kernel, OS-API, user-level library, no-op, with
\* its mode string; and once chosen the variant never changes.
C7_OneVariantForGood ==
  /\ [](b_pc # "import_raised")
  /\ [](b_pc = "ready" =>
          b_variant = FirstAvailable /\ b_mode = ModeString(FirstAvailable))
  /\ [][b_variant # "unset" => b_variant' = b_variant /\ b_mode' = b_mode]_vars

\* keys were pressed and released under the user-level variant on a machine
\* where the kernel-level device could not be created
C7_Witness ==
  /\ b_pc = "ready"
  /\ b_platform = "linux" /\ b_evdev /\ ~KernelAvailable
  /\ b_variant = "user"
  /\ b_ncalls >= 2

\* C8: when creating the kernel-level device raises PermissionError, nothing
\* is raised out of the import, the controller reports inactive, and the
\* next tier (user-level library, else no-op) is the one selected.
C8_PermissionFallsBack ==
  (b_created # << >> /\ Last(b_created) = "permission") =>
    /\ b_pc # "import_raised"
    /\ b_vc.built /\ ~IsActive(b_vc)
    /\ b_pc \in {"define", "ready", "exited"}
    /\ ~b_uinput_dev
    /\ b_pc = "ready" => b_variant = (IF b_pynput_env THEN "user" ELSE "noop")

\* after a PermissionError the import finished with the user-level variant
C8_Witness ==
  /\ b_created = << "permission" >>
  /\ b_pc = "ready"
  /\ b_variant = "user"

\* what identifies the virtual device
Identity(vc) == << vc.vid, vc.pid, vc.device_name >>

\* C16: the virtual device is created (a persona drawn) at most once per
\* process across get_controller, press and release calls, also after a
\* creation that failed; and the vendor id, product id and device name of
\* the controller never change once it is built.
C16_CreatedOnce ==
  [][ /\ Len(b_created') <= 1
      /\ b_vc.built => (b_vc'.built /\ Identity(b_vc') = Identity(b_vc)) ]_vars

\* get_controller was called again after a creation that had failed, and
\* keys were pressed or released as well
C16_Witness ==
  /\ Len(b_created) = 1 /\ b_created[1] # "ok"
  /\ b_call.fn = "get_controller"
  /\ b_ncalls >= 2

\* C17: if the kernel-level device was created, its handle has been closed
\* when the program has shut down.
C17_ClosedAtShutdown == b_pc = "exited" => b_vc.uinput # "open"

\* ------------------------------------------------------------ control loops

\* the ante-frontier delays a session is configured with: the 60 FPS preset,
\* none, and a positive one
HitAntes == {-250, 0, 50}

\* the class predict reports as the ante-frontier one
PriorityClass == 2

\* what AI_model.predict can report: (pred, should_hit)
Predictions ==
  { [pred |-> p, should_hit |-> h] : p \in {0, PriorityClass}, h \in BOOLEAN }

\* how cap.read() of the capture device can end
Reads == {"ok", "bad"}

\* get_raw_frame with the substitution of line 146 replaced by a raise
GetRawFrameStrict(started, read) ==
  IF ~started THEN "raise"
  ELSE IF read = "bad" THEN "raise"
  ELSE "image"

\* Monitoring_v4l2.get_raw_frame: RuntimeError without a capture, an all-zero
\* frame of the known size for a read that failed, the frame read otherwise
GetRawFrame(started, read) ==
  IF ~started THEN "raise"
  ELSE IF read = "bad" THEN "zeros"
  ELSE "image"

\* One iteration of a loop: how the frame was read and what was pulled, what
\* predict reported, the press calls made and the action events emitted for
\* the frame, and what ended the loop when this iteration did.
NoIter ==
  [pred |-> 0, should_hit |-> FALSE, read |-> "none", frame |-> "none",
   presses |-> 0, events |-> 0, exit |-> "none", ante |-> 0, steps |-> << >>]

\* the iteration with one more step done
Did(iter, step) == [iter EXCEPT !.steps = Append(@, step)]

\* an ante-frontier sleep for every class
AnteSleepAnyClass(pred, hit_ante) == IF hit_ante > 0 THEN hit_ante ELSE 0

\* the ante-frontier step (app.py lines 136-137, tui.py lines 715-716): the
\* milliseconds slept between the detection and the press call
AnteSleep(pred, hit_ante) ==
  IF pred = PriorityClass /\ hit_ante > 0 THEN hit_ante ELSE 0

\* the iteration once the ante-frontier step is over
Anted(iter, hit_ante) ==
  LET slept == AnteSleep(iter.pred, hit_ante)
      timed == [iter EXCEPT !.ante = slept]
  IN  IF slept > 0 THEN Did(timed, "ante") ELSE timed

\* the iteration once a frame has been pulled
Pulled(iter, read, frame) ==
  IF frame = "none" THEN [iter EXCEPT !.read = read]
  ELSE Did([iter EXCEPT !.read = read, !.frame = frame], "pull")

\* the iteration once predict has reported
Predicted(iter, p) == [iter EXCEPT !.pred = p.pred, !.should_hit = p.should_hit]

\* the iteration that ended the loop
Exited(iter, cause) == [iter EXCEPT !.exit = cause]

\* what can end a loop: the stop test at its head, or an exception raised by
\* the frame pull, the classifier or the press
ExitCauses == {"stop", "grab", "predict", "press"}

\* handlers that let the frame source's exceptions through
CaughtButFrameErrors(ui, cause) == cause \in ExitCauses \ {"grab"}

\* tui.py lines 739-742 and app.py lines 160-162: the handlers around the
\* loop catch Exception, which the frame source, the classifier and the
\* press raise; leaving by the loop's own test raises nothing
Caught(ui, cause) == cause \in ExitCauses

\* a call into the frame source, the classifier or the Humanizer returns or raises
CallOutcomes == {"ok", "raise"}

\* the states in which a session is RUNNING: from the loop's first test to
\* the point where the loop is left
LoopStates == {"loop_head", "grab", "predict", "ante", "press", "emit",
               "cooldown", "fps"}

\* number of sessions the web UI starts
MaxRuns == 2

LInit ==
  /\ l_ui \in {"tui", "web"}
  /\ l_hit_ante \in HitAntes
  /\ t_pc = "start"
  /\ t_running = FALSE
  /\ t_ai_model = FALSE
  /\ t_iter = NoIter
  /\ t_stop = FALSE
  /\ a_pc = "idle"
  /\ a_ai_model = 0
  /\ a_model_instance = 0
  /\ a_iter = NoIter
  /\ a_stop = FALSE
  /\ a_runs = 0

aunch == UNCHANGED << a_pc, a_ai_model, a_model_instance, a_iter, a_stop, a_runs >>

tunch == UNCHANGED << t_pc, t_running, t_ai_model, t_iter, t_stop >>

\* --- tui.py, DBDAutoSkillCheck.run

\* run, lines 615-665: the settings (or the saved configuration) and the wait
\* for the consent thread; run returns when there is no model or the user
\* cancels
TuiSettings ==
  /\ l_ui = "tui" /\ t_pc = "start"
  /\ \E go \in BOOLEAN : t_pc' = IF go THEN "load" ELSE "returned"
  /\ UNCHANGED << l_ui, l_hit_ante, t_running, t_ai_model, t_iter, t_stop >>
  /\ aunch

\* run, lines 670-685: build the capture and the model; an exception returns.
\* AI_model(...) may have been assigned before check_provider raises.
TuiLoad ==
  /\ l_ui = "tui" /\ t_pc = "load"
  /\ \E built \in CallOutcomes, provider \in CallOutcomes :
       /\ t_ai_model' = (built = "ok")
       /\ t_pc' = IF built = "ok" /\ provider = "ok" THEN "arm" ELSE "returned"
  /\ UNCHANGED << l_ui, l_hit_ante, t_running, t_iter, t_stop >>
  /\ aunch

\* run, lines 690-700: self.running = True, the UI thread is started
TuiArm ==
  /\ l_ui = "tui" /\ t_pc = "arm"
  /\ t_running' = TRUE
  /\ t_pc' = "loop_head"
  /\ UNCHANGED << l_ui, l_hit_ante, t_ai_model, t_iter, t_stop >>
  /\ aunch

\* run, lines 703-705: while self.running, and the break on a missing model
TuiLoopHead ==
  /\ l_ui = "tui" /\ t_pc = "loop_head"
  /\ t_pc' = IF t_running /\ t_ai_model THEN "grab" ELSE "finally"
  /\ t_iter' = IF t_running /\ t_ai_model THEN NoIter ELSE Exited(NoIter, "stop")
  /\ UNCHANGED << l_ui, l_hit_ante, t_running, t_ai_model, t_stop >>
  /\ aunch

\* run, line 707: grab_screenshot; an exception goes to the handlers of 739-742
TuiGrab ==
  /\ l_ui = "tui" /\ t_pc = "grab"
  /\ \E started \in BOOLEAN, read \in Reads :
       LET frame == GetRawFrame(started, read)
           seen == IF started THEN Pulled(t_iter, read, "none") ELSE t_iter
       IN  IF frame = "raise"
           THEN t_pc' = "finally" /\ t_iter' = Exited(seen, "grab")
           ELSE t_pc' = "predict" /\ t_iter' = Pulled(seen, read, frame)
  /\ UNCHANGED << l_ui, l_hit_ante, t_running, t_ai_model, t_stop >>
  /\ aunch

\* run, lines 710-714 and 732-737: predict, last_probs; without should_hit the
\* fps window is looked at and the loop goes round
TuiPredict ==
  /\ l_ui = "tui" /\ t_pc = "predict"
  /\ \/ /\ t_pc' = "finally"
        /\ t_iter' = Exited(t_iter, "predict")
     \/ \E p \in Predictions :
          /\ t_iter' = Predicted(t_iter, p)
          /\ t_pc' = IF p.should_hit THEN "ante" ELSE "fps"
  /\ UNCHANGED << l_ui, l_hit_ante, t_running, t_ai_model, t_stop >>
  /\ aunch

\* run, lines 715-716: the ante-frontier sleep
TuiAnte ==
  /\ l_ui = "tui" /\ t_pc = "ante"
  /\ t_pc' = "press"
  /\ t_iter' = Anted(t_iter, l_hit_ante)
  /\ UNCHANGED << l_ui, l_hit_ante, t_running, t_ai_model, t_stop >>
  /\ aunch

\* run, lines 719-721: self.humanizer.press(...), which returns a cooldown or
\* raises
TuiPress ==
  /\ l_ui = "tui" /\ t_pc = "press"
  /\ \E got \in CallOutcomes :
       LET called == [t_iter EXCEPT !.presses = @ + 1]
       IN  IF got = "ok"
           THEN t_pc' = "emit" /\ t_iter' = Did(called, "press")
           ELSE t_pc' = "finally" /\ t_iter' = Exited(called, "press")
  /\ UNCHANGED << l_ui, l_hit_ante, t_running, t_ai_model, t_stop >>
  /\ aunch

\* run, lines 723-725: total_hits and last_hit_desc under the lock
TuiEmit ==
  /\ l_ui = "tui" /\ t_pc = "emit"
  /\ t_pc' = "cooldown"
  /\ t_iter' = Did([t_iter EXCEPT !.events = @ + 1], "event")
  /\ UNCHANGED << l_ui, l_hit_ante, t_running, t_ai_model, t_stop >>
  /\ aunch

\* run, lines 727-730: sleep(cooldown), the fps window is reset, continue
TuiCooldown ==
  /\ l_ui = "tui" /\ t_pc = "cooldown"
  /\ t_pc' = "loop_head"
  /\ t_iter' = Did(Did(t_iter, "cooldown"), "reset")
  /\ UNCHANGED << l_ui, l_hit_ante, t_running, t_ai_model, t_stop >>
  /\ aunch

\* run, lines 732-737: the fps window
TuiFps ==
  /\ l_ui = "tui" /\ t_pc = "fps"
  /\ t_pc' = "loop_head"
  /\ UNCHANGED << l_ui, l_hit_ante, t_running, t_ai_model, t_iter, t_stop >>
  /\ aunch

\* run, lines 743-755: the finally block clears running, deletes the model
\* and prints the summary
TuiFinally ==
  /\ l_ui = "tui" /\ t_pc = "finally"
  /\ t_running' = FALSE
  /\ t_ai_model' = FALSE
  /\ t_pc' = IF Caught(l_ui, t_iter.exit) THEN "stopped" ELSE "crashed"
  /\ UNCHANGED << l_ui, l_hit_ante, t_iter, t_stop >>
  /\ aunch

\* main, lines 775-777: the SIGINT handler clears app.running, whenever the
\* signal comes
TuiSigint ==
  /\ l_ui = "tui" /\ t_pc \notin {"returned", "stopped", "crashed"}
  /\ t_running' = FALSE
  /\ t_stop' = (t_stop \/ (t_running /\ t_pc \in LoopStates))
  /\ UNCHANGED << l_ui, l_hit_ante, t_pc, t_ai_model, t_iter >>
  /\ aunch

\* --- app.py, monitor and cleanup

\* the RUN button: monitor, lines 82-107. The inputs are validated, the
\* capture and the model are built, model_instance and the global ai_model
\* name the new object; gr.Error leaves monitor when something fails.
WebRun ==
  /\ l_ui = "web" /\ a_pc \in {"idle", "stopped"}
  /\ a_runs < MaxRuns
  /\ a_stop' = FALSE
  /\ a_iter' = NoIter
  /\ \E valid \in BOOLEAN, built \in CallOutcomes, provider \in CallOutcomes :
       IF ~valid \/ built = "raise"
       THEN /\ a_pc' = "idle"
            /\ UNCHANGED << a_ai_model, a_model_instance, a_runs >>
       ELSE /\ a_runs' = a_runs + 1
            /\ a_ai_model' = a_runs + 1
            /\ IF provider = "ok"
               THEN a_pc' = "loop_head" /\ a_model_instance' = a_runs + 1
               ELSE a_pc' = "idle" /\ a_model_instance' = 0
  /\ UNCHANGED << l_ui, l_hit_ante >>
  /\ tunch

\* monitor, lines 125-127: while True, and the break on model_instance is None
WebLoopHead ==
  /\ l_ui = "web" /\ a_pc = "loop_head"
  /\ a_pc' = IF a_model_instance = 0 THEN "finally" ELSE "grab"
  /\ a_iter' = IF a_model_instance = 0 THEN Exited(NoIter, "stop") ELSE NoIter
  /\ UNCHANGED << l_ui, l_hit_ante, a_ai_model, a_model_instance, a_stop, a_runs >>
  /\ tunch

\* monitor, line 129: grab_screenshot; an exception goes to the handler of 160
WebGrab ==
  /\ l_ui = "web" /\ a_pc = "grab"
  /\ \E started \in BOOLEAN, read \in Reads :
       LET frame == GetRawFrame(started, read)
           seen == IF started THEN Pulled(a_iter, read, "none") ELSE a_iter
       IN  IF frame = "raise"
           THEN a_pc' = "finally" /\ a_iter' = Exited(seen, "grab")
           ELSE a_pc' = "predict" /\ a_iter' = Pulled(seen, read, frame)
  /\ UNCHANGED << l_ui, l_hit_ante, a_ai_model, a_model_instance, a_stop, a_runs >>
  /\ tunch

\* monitor, lines 132-134
WebPredict ==
  /\ l_ui = "web" /\ a_pc = "predict"
  /\ \/ /\ a_pc' = "finally"
        /\ a_iter' = Exited(a_iter, "predict")
     \/ \E p \in Predictions :
          /\ a_iter' = Predicted(a_iter, p)
          /\ a_pc' = IF p.should_hit THEN "ante" ELSE "fps"
  /\ UNCHANGED << l_ui, l_hit_ante, a_ai_model, a_model_instance, a_stop, a_runs >>
  /\ tunch

\* monitor, lines 136-137: the ante-frontier sleep
WebAnte ==
  /\ l_ui = "web" /\ a_pc = "ante"
  /\ a_pc' = "press"
  /\ a_iter' = Anted(a_iter, l_hit_ante)
  /\ UNCHANGED << l_ui, l_hit_ante, a_ai_model, a_model_instance, a_stop, a_runs >>
  /\ tunch

\* monitor, lines 140-142: humanized_press(...), which returns a cooldown or
\* raises
WebPress ==
  /\ l_ui = "web" /\ a_pc = "press"
  /\ \E got \in CallOutcomes :
       LET called == [a_iter EXCEPT !.presses = @ + 1]
       IN  IF got = "ok"
           THEN a_pc' = "emit" /\ a_iter' = Did(called, "press")
           ELSE a_pc' = "finally" /\ a_iter' = Exited(called, "press")
  /\ UNCHANGED << l_ui, l_hit_ante, a_ai_model, a_model_instance, a_stop, a_runs >>
  /\ tunch

\* monitor, line 144: yield the frame and the probabilities
WebEmit ==
  /\ l_ui = "web" /\ a_pc = "emit"
  /\ a_pc' = "cooldown"
  /\ a_iter' = Did([a_iter EXCEPT !.events = @ + 1], "event")
  /\ UNCHANGED << l_ui, l_hit_ante, a_ai_model, a_model_instance, a_stop, a_runs >>
  /\ tunch

\* monitor, lines 146-149: sleep(cooldown), the fps window is reset, continue
WebCooldown ==
  /\ l_ui = "web" /\ a_pc = "cooldown"
  /\ a_pc' = "loop_head"
  /\ a_iter' = Did(Did(a_iter, "cooldown"), "reset")
  /\ UNCHANGED << l_ui, l_hit_ante, a_ai_model, a_model_instance, a_stop, a_runs >>
  /\ tunch

\* monitor, lines 152-158: the fps window, with a yield when it is over 1 s
WebFps ==
  /\ l_ui = "web" /\ a_pc = "fps"
  /\ a_pc' = "loop_head"
  /\ UNCHANGED << l_ui, l_hit_ante, a_ai_model, a_model_instance, a_iter, a_stop,
                  a_runs >>
  /\ tunch

\* monitor, lines 160-164: the handler and the finally block print; the
\* generator ends and its frame, with model_instance, is gone
WebFinally ==
  /\ l_ui = "web" /\ a_pc = "finally"
  /\ a_model_instance' = 0
  /\ a_pc' = IF Caught(l_ui, a_iter.exit) THEN "stopped" ELSE "crashed"
  /\ UNCHANGED << l_ui, l_hit_ante, a_ai_model, a_iter, a_stop, a_runs >>
  /\ tunch

\* the STOP button: cleanup, lines 58-63, drops the global ai_model
WebStop ==
  /\ l_ui = "web"
  /\ a_ai_model' = 0
  /\ a_stop' = (a_stop \/ a_pc \in LoopStates)
  /\ UNCHANGED << l_ui, l_hit_ante, a_pc, a_model_instance, a_iter, a_runs >>
  /\ tunch

\* An AI_model object holds the classifier and the capture until nothing
\* names it any more.
WebHeld(obj) == obj # 0 /\ (a_ai_model = obj \/ a_model_instance = obj)

\* ------------------------------------------------ the fingerprint file

\* number of load_fingerprint calls a behaviour makes
MaxLoads == 3

\* the ids uuid4 hands to generated fingerprints: each one is new
FirstNewId == 10

\* an object of no keys that matter
NoObject == [none |-> 0]

\* what json.load can hand back: an object, a list (of its string items),
\* a string (items: the key names that occur in it), a number, null
JObject(obj) == [kind |-> "object", obj |-> obj, items |-> {}]

JList(items) == [kind |-> "list", obj |-> NoObject, items |-> items]

JString(items) == [kind |-> "string", obj |-> NoObject, items |-> items]

JNumber == [kind |-> "number", obj |-> NoObject, items |-> {}]

JNull == [kind |-> "null", obj |-> NoObject, items |-> {}]

\* the states of humanizer_fingerprint.json
Absent == [state |-> "absent", value |-> JNull]

Unreadable == [state |-> "unreadable", value |-> JNull]

Undecodable == [state |-> "undecodable", value |-> JNull]

NotJson == [state |-> "notjson", value |-> JNull]

Json(value) == [state |-> "json", value |-> value]

\* a record saved by an earlier installation run
FpSaved == [FpFull EXCEPT !.id = 7]

\* a record with every field but "id"
FpNoId == [k \in (DOMAIN FpFull) \ {"id"} |-> FpFull[k]]

FileStates ==
  { Absent, Unreadable, Undecodable, NotJson,
    Json(JNumber), Json(JNull), Json(JList({})), Json(JList({"id", "press_mu"})),
    Json(JString({"id", "press_mu"})),
    Json(JObject(FpNoId)), Json(JObject(FpPartial)), Json(JObject(FpSaved)) }

\* Python's "key in value": membership for an object's keys and a list's
\* items, substring for a string, TypeError for a number or None
In(key, value) ==
  CASE value.kind = "object" -> IF key \in DOMAIN value.obj THEN "true" ELSE "false"
    [] value.kind \in {"list", "string"} ->
         IF key \in value.items THEN "true" ELSE "false"
    [] OTHER -> "TypeError"

\* load_fingerprint, line 83: "id" in fp and "press_mu" in fp
Validate(value) ==
  LET has_id == In("id", value)
  IN  IF has_id = "true" THEN In("press_mu", value) ELSE has_id

\* load_fingerprint, lines 80-81: open and json.load
ReadFile(file) ==
  CASE file.state = "unreadable" -> "IOError"
    [] file.state = "undecodable" -> "UnicodeDecodeError"
    [] file.state = "notjson" -> "JSONDecodeError"
    [] OTHER -> "value"

\* load_fingerprint, line 85: the exceptions the try statement catches
LoadCatches(exc) == exc \in {"JSONDecodeError", "IOError", "KeyError"}

\* _generate_fingerprint: every key, under a new id
GenerateFingerprint(id) == [FpFull EXCEPT !.id = id]

\* how the write of lines 91-92 can end: written, open fails, or the dump
\* fails after open has truncated the file; both failures are IOError
WriteOutcomes == {"ok", "open_fails", "dump_fails"}

\* a save that never reaches the disk
SaveNothing(file, fp, write) == file

\* load_fingerprint, lines 90-94: the file after the save
SaveFile(file, fp, write) ==
  CASE write = "ok" -> Json(JObject(fp))
    [] write = "dump_fails" -> NotJson
    [] OTHER -> file

\* load_fingerprint as a whole: how the call ends, what it returns, whether
\* it generated, whether the save went through, and the file it leaves
LoadResult(file, id, write) ==
  LET read == IF file.state = "absent" THEN "absent" ELSE ReadFile(file)
      valid == IF read = "value" THEN Validate(file.value) ELSE "false"
      exc == IF read \in {"absent", "value"}
             THEN (IF valid = "TypeError" THEN "TypeError" ELSE "none")
             ELSE read
      fp == GenerateFingerprint(id)
  IN  IF exc # "none" /\ ~LoadCatches(exc)
      THEN [status |-> "raised", value |-> JNull, generated |-> FALSE,
            saved |-> FALSE, had_valid |-> FALSE, file |-> file]
      ELSE IF valid = "true"
      THEN [status |-> "returned", value |-> file.value, generated |-> FALSE,
            saved |-> FALSE, had_valid |-> TRUE, file |-> file]
      ELSE [status |-> "returned", value |-> JObject(fp), generated |-> TRUE,
            saved |-> write = "ok", had_valid |-> FALSE,
            file |-> SaveFile(file, fp, write)]

FInit ==
  /\ f_file \in FileStates
  /\ f_results = << >>
  /\ f_nextid = FirstNewId

\* load_fingerprint(), as Humanizer() and get_humanizer() call it
LoadFingerprint ==
  /\ Len(f_results) < MaxLoads
  /\ \E write \in WriteOutcomes :
       LET r == LoadResult(f_file, f_nextid, write)
       IN  /\ f_results' = Append(f_results,
                 [call |-> "load", status |-> r.status, value |-> r.value,
                  generated |-> r.generated, saved |-> r.saved,
                  had_valid |-> r.had_valid])
           /\ f_file' = r.file
           /\ f_nextid' = IF r.generated THEN f_nextid + 1 ELSE f_nextid

\* the fingerprints a caller hands to Humanizer(fingerprint): a complete one
\* of its own, or an empty dict
GivenFingerprints == { [FpFull EXCEPT !.id = 5], NoObject }

\* Humanizer.__init__, line 112: self._fp = fingerprint or load_fingerprint().
\* A fingerprint that is given and not empty is taken as it is and the file
\* is left alone; an empty one counts as none and the file is loaded.
ConstructGiven ==
  /\ Len(f_results) < MaxLoads
  /\ \E given \in GivenFingerprints, write \in WriteOutcomes :
       IF given # NoObject
       THEN /\ f_results' = Append(f_results,
                  [call |-> "given", status |-> "returned",
                   value |-> JObject(given), generated |-> FALSE,
                   saved |-> FALSE, had_valid |-> FALSE])
            /\ UNCHANGED << f_file, f_nextid >>
       ELSE LET r == LoadResult(f_file, f_nextid, write)
            IN  /\ f_results' = Append(f_results,
                      [call |-> "load", status |-> r.status, value |-> r.value,
                       generated |-> r.generated, saved |-> r.saved,
                       had_valid |-> r.had_valid])
                /\ f_file' = r.file
                /\ f_nextid' = IF r.generated THEN f_nextid + 1 ELSE f_nextid

\* ------------------------------------------- the fatigue multiplier alone

\* the largest hit count _fatigue_factor is evaluated at
MaxHits == 6

\* fingerprints that differ in their fatigue fields: onset, ramp length,
\* maximum (below, at and above 1.0) and wave amplitude (none, small, and
\* larger than the whole ramp)
FatigueFingerprints ==
  { [FpFull EXCEPT !.fatigue_onset = onset, !.fatigue_ramp = ramp,
                   !.fatigue_max = top, !.fatigue_wave_amp = amp] :
      onset \in {1, 3}, ramp \in {1, 2}, top \in {900, 1000, 1200},
      amp \in {0, 20, 300} }

\* values of fatigue_wave_amp * sin(...): the two ends, the middle and a
\* point on either side
SineDraws(fp) ==
  { -fp.fatigue_wave_amp, -(fp.fatigue_wave_amp \div 2), 0,
    fp.fatigue_wave_amp \div 2, fp.fatigue_wave_amp }

NoValue == -1

NoArgs == [fp |-> FpFull, hits |-> 0, wave |-> 0]

QInit ==
  /\ q_in \in { [fp |-> fp, hits |-> hits, wave |-> wave] :
                  fp \in FatigueFingerprints, hits \in 0..MaxHits,
                  wave \in UNION { SineDraws(f) : f \in FatigueFingerprints } }
  /\ q_in.wave \in SineDraws(q_in.fp)
  /\ q_out = NoValue

\* one call of Humanizer._fatigue_factor
EvalFatigue ==
  /\ q_out = NoValue
  /\ q_out' = FatigueFactor(q_in.fp, q_in.hits, q_in.wave)
  /\ UNCHANGED q_in

\* -------------------------------------- the threads of the terminal UI

\* frames a behaviour of the terminal UI pulls
MaxFrames == 2

\* where the main thread is inside the loop of run(), lines 703-737
UiLoopPcs == {"head", "frame", "press", "hits", "fps"}

\* where the main thread is between the start of run() and the loop
UiPreLoopPcs == {"settings", "join", "load", "arm"}

\* the control loop and the UI thread are both alive
BothAlive ==
  /\ u_main \in UiLoopPcs \cup {"finally", "summary"}
  /\ u_ui \notin {"none", "ended"}

\* the log after one more access: who, which shared value, read or write,
\* and whether the thread making it is the one inside a lock block
Access(log, who, var, op, holder) ==
  IF BothAlive
  THEN log \cup {[who |-> who, var |-> var, op |-> op, held |-> holder = who]}
  ELSE log

UInit ==
  /\ u_wayland \in BOOLEAN
  /\ u_main = "new"
  /\ u_ui = "none"
  /\ u_consent = "none"
  /\ u_running = FALSE
  /\ u_lock = "none"
  /\ u_log = {}
  /\ u_early = FALSE
  /\ u_frames = 0
  /\ u_pressed = FALSE

\* DBDAutoSkillCheck.__init__, lines 158-188: running = False; on Wayland
\* trigger_wayland_consent starts the consent thread
UConstruct ==
  /\ u_main = "new"
  /\ u_main' = "main"
  /\ u_running' = FALSE
  /\ u_consent' = IF u_wayland THEN "started" ELSE "none"
  /\ UNCHANGED << u_wayland, u_ui, u_lock, u_log, u_early, u_frames, u_pressed >>

\* main, lines 775-782: the SIGINT handler is installed and run() is called
UInstall ==
  /\ u_main = "main"
  /\ u_main' = "settings"
  /\ UNCHANGED << u_wayland, u_ui, u_consent, u_running, u_lock, u_log,
                  u_early, u_frames, u_pressed >>

\* run, lines 615-660: the settings or the saved configuration; run returns
\* when there is no model or the user cancels
USettings ==
  /\ u_main = "settings"
  /\ \E go \in BOOLEAN : u_main' = IF go THEN "join" ELSE "returned"
  /\ UNCHANGED << u_wayland, u_ui, u_consent, u_running, u_lock, u_log,
                  u_early, u_frames, u_pressed >>

\* run, lines 662-665: join(timeout=3) on a consent thread that is alive
\* returns when the thread has ended or when three seconds have passed
UJoin ==
  /\ u_main = "join"
  /\ u_main' = "load"
  /\ UNCHANGED << u_wayland, u_ui, u_consent, u_running, u_lock, u_log,
                  u_early, u_frames, u_pressed >>

\* run, lines 667-685: the model is loaded; an exception returns
ULoad ==
  /\ u_main = "load"
  /\ \E loaded \in BOOLEAN : u_main' = IF loaded THEN "arm" ELSE "returned"
  /\ UNCHANGED << u_wayland, u_ui, u_consent, u_running, u_lock, u_log,
                  u_early, u_frames, u_pressed >>

\* run, lines 690-700: self.running = True, total_hits = 0, the UI thread is
\* started
UArm ==
  /\ u_main = "arm"
  /\ u_running' = TRUE
  /\ u_ui' = "stats"
  /\ u_main' = "head"
  /\ UNCHANGED << u_wayland, u_consent, u_lock, u_log, u_early, u_frames,
                  u_pressed >>

\* run, line 703: while self.running, read outside any lock block
UHead ==
  /\ u_main = "head"
  /\ u_log' = Access(u_log, "main", "running", "read", u_lock)
  /\ u_main' = IF u_running THEN "frame" ELSE "finally"
  /\ UNCHANGED << u_wayland, u_ui, u_consent, u_running, u_lock, u_early,
                  u_frames, u_pressed >>

\* run, lines 707-714: a frame is pulled and classified, last_probs is
\* written inside a lock block
UFrame ==
  /\ u_main = "frame"
  /\ u_frames < MaxFrames
  /\ u_lock = "none"
  /\ u_frames' = u_frames + 1
  /\ u_log' = Access(u_log, "main", "last_probs", "write", "main")
  /\ \E should_hit \in BOOLEAN : u_main' = IF should_hit THEN "press" ELSE "fps"
  /\ UNCHANGED << u_wayland, u_ui, u_consent, u_running, u_lock, u_early,
                  u_pressed >>

\* run, lines 715-721: the ante sleep and self.humanizer.press(...), which
\* returns or raises
UPress ==
  /\ u_main = "press"
  /\ u_pressed' = TRUE
  /\ \E got \in CallOutcomes : u_main' = IF got = "ok" THEN "hits" ELSE "finally"
  /\ UNCHANGED << u_wayland, u_ui, u_consent, u_running, u_lock, u_log,
                  u_early, u_frames >>

\* run, lines 723-730: total_hits and last_hit_desc are written inside a
\* lock block; the cooldown is slept
UHits ==
  /\ u_main = "hits"
  /\ u_lock = "none"
  /\ u_log' = Access(Access(u_log, "main", "total_hits", "read", "main"),
                     "main", "total_hits", "write", "main")
  /\ u_main' = "head"
  /\ UNCHANGED << u_wayland, u_ui, u_consent, u_running, u_lock, u_early,
                  u_frames, u_pressed >>

\* run, lines 732-737: once the window is over a second, fps is written
\* inside a lock block
UFps ==
  /\ u_main = "fps"
  /\ \E over \in BOOLEAN :
       IF over
       THEN /\ u_lock = "none"
            /\ u_log' = Access(u_log, "main", "fps", "write", "main")
       ELSE UNCHANGED u_log
  /\ u_main' = "head"
  /\ UNCHANGED << u_wayland, u_ui, u_consent, u_running, u_lock, u_early,
                  u_frames, u_pressed >>

\* run, lines 743-745: the finally block writes running outside any lock
\* block and sleeps half a second
UFinally ==
  /\ u_main = "finally"
  /\ u_running' = FALSE
  /\ u_log' = Access(u_log, "main", "running", "write", u_lock)
  /\ u_main' = "summary"
  /\ UNCHANGED << u_wayland, u_ui, u_consent, u_lock, u_early, u_frames,
                  u_pressed >>

\* run, lines 746-755: the summary reads total_hits outside any lock block;
\* the UI thread is not joined
USummary ==
  /\ u_main = "summary"
  /\ u_log' = Access(u_log, "main", "total_hits", "read", u_lock)
  /\ u_main' = "done"
  /\ UNCHANGED << u_wayland, u_ui, u_consent, u_running, u_lock, u_early,
                  u_frames, u_pressed >>

\* main, lines 775-777: SIGINT runs the handler in the main thread, between
\* two of its instructions: app.running = False
USigint ==
  /\ u_main \in UiPreLoopPcs \cup UiLoopPcs
  /\ u_running' = FALSE
  /\ u_early' = (u_early \/ u_main \in UiPreLoopPcs)
  /\ u_log' = Access(u_log, "main", "running", "write", u_lock)
  /\ UNCHANGED << u_wayland, u_main, u_ui, u_consent, u_lock, u_frames,
                  u_pressed >>

\* _send_dummy_input, line 118: PressKey(SPACE); what it raises is caught
ConsentPress ==
  /\ u_consent = "started"
  /\ \E got \in CallOutcomes :
       u_consent' = IF got = "ok" THEN "pressed" ELSE "done"
  /\ UNCHANGED << u_wayland, u_main, u_ui, u_running, u_lock, u_log, u_early,
                  u_frames, u_pressed >>

\* _send_dummy_input, lines 119-122: sleep(0.01), ReleaseKey(SPACE)
ConsentRelease ==
  /\ u_consent = "pressed"
  /\ u_consent' = "done"
  /\ UNCHANGED << u_wayland, u_main, u_ui, u_running, u_lock, u_log, u_early,
                  u_frames, u_pressed >>

\* create_status_display, lines 558-560: the lock block is entered, fps and
\* total_hits are read
UiStats ==
  /\ u_ui = "stats"
  /\ u_lock = "none"
  /\ u_lock' = "ui"
  /\ u_log' = Access(Access(u_log, "ui", "fps", "read", "ui"),
                     "ui", "total_hits", "read", "ui")
  /\ u_ui' = "stats_end"
  /\ UNCHANGED << u_wayland, u_main, u_consent, u_running, u_early, u_frames,
                  u_pressed >>

\* create_status_display, lines 561-565: the rest of the block; the lock is
\* released
UiStatsEnd ==
  /\ u_ui = "stats_end"
  /\ u_lock' = "none"
  /\ u_ui' = "probs"
  /\ UNCHANGED << u_wayland, u_main, u_consent, u_running, u_log, u_early,
                  u_frames, u_pressed >>

\* create_status_display, lines 571-575: last_probs is read inside a lock
\* block
UiProbs ==
  /\ u_ui = "probs"
  /\ u_lock = "none"
  /\ u_log' = Access(u_log, "ui", "last_probs", "read", "ui")
  /\ u_ui' = "status"
  /\ UNCHANGED << u_wayland, u_main, u_consent, u_running, u_lock, u_early,
                  u_frames, u_pressed >>

\* create_status_display, line 586: self.running is read for the title,
\* outside any lock block
UiStatus ==
  /\ u_ui = "status"
  /\ u_log' = Access(u_log, "ui", "running", "read", u_lock)
  /\ u_ui' = "while"
  /\ UNCHANGED << u_wayland, u_main, u_consent, u_running, u_lock, u_early,
                  u_frames, u_pressed >>

\* ui_update_loop, lines 607-609: while self.running, read outside any lock
\* block; the display is built again, or the thread ends
UiWhile ==
  /\ u_ui = "while"
  /\ u_log' = Access(u_log, "ui", "running", "read", u_lock)
  /\ u_ui' = IF u_running THEN "stats" ELSE "ended"
  /\ UNCHANGED << u_wayland, u_main, u_consent, u_running, u_lock, u_early,
                  u_frames, u_pressed >>

\* --------------------------------------------------------- specifications

\* the Humanizer before any use
HQuiet ==
  /\ h_fp = FpFull
  /\ h_hit_count = 0
  /\ h_last_press_age = NoTime
  /\ h_recent = << >>
  /\ h_lock = NoThread
  /\ h_pc = [t \in Threads |-> "idle"]
  /\ h_loc = [t \in Threads |-> NoLocals]
  /\ h_left = [t \in Threads |-> 0]
  /\ h_res = [t \in Threads |-> NoResult]
  /\ h_calls = 0
  /\ h_rel_age = NoTime

\* the backend before directkeys is imported
BQuiet ==
  /\ b_platform = "linux"
  /\ b_evdev = FALSE
  /\ b_pynput_env = FALSE
  /\ b_pc = "start"
  /\ b_pynput = FALSE
  /\ b_vc = NoController
  /\ b_uinput_dev = FALSE
  /\ b_mode = "unset"
  /\ b_variant = "unset"
  /\ b_created = << >>
  /\ b_call = NoCall
  /\ b_ncalls = 0

\* no program started
LQuiet ==
  /\ l_ui = "tui"
  /\ l_hit_ante = 0
  /\ t_pc = "start"
  /\ t_running = FALSE
  /\ t_ai_model = FALSE
  /\ t_iter = NoIter
  /\ t_stop = FALSE
  /\ a_pc = "idle"
  /\ a_ai_model = 0
  /\ a_model_instance = 0
  /\ a_iter = NoIter
  /\ a_stop = FALSE
  /\ a_runs = 0

\* no fingerprint file, no load
FQuiet ==
  /\ f_file = Absent
  /\ f_results = << >>
  /\ f_nextid = FirstNewId

\* nothing observed, nothing evaluated
RQuiet == r_hist = << >> /\ r_reset = FALSE

QQuiet == q_in = NoArgs /\ q_out = NoValue

\* no terminal UI started
UQuiet ==
  /\ u_wayland = FALSE
  /\ u_main = "new"
  /\ u_ui = "none"
  /\ u_consent = "none"
  /\ u_running = FALSE
  /\ u_lock = "none"
  /\ u_log = {}
  /\ u_early = FALSE
  /\ u_frames = 0
  /\ u_pressed = FALSE

besideH == << bvars, lvars, fvars, rvars, qvars, uvars >>

besideB == << hvars, lvars, fvars, rvars, qvars, uvars >>

besideL == << hvars, bvars, fvars, rvars, qvars, uvars >>

besideF == << hvars, bvars, lvars, rvars, qvars, uvars >>

besideQ == << hvars, bvars, lvars, fvars, rvars, uvars >>

besideR == << bvars, lvars, fvars, qvars, uvars >>

besideU == << hvars, bvars, lvars, fvars, rvars, qvars >>

\* a single caller using one Humanizer
SpecHInit == HInit /\ BQuiet /\ LQuiet /\ FQuiet /\ RQuiet /\ QQuiet /\ UQuiet

SpecHNext ==
  \/ \E t \in Threads :
       \/ PressBegin(t) /\ UNCHANGED besideH
       \/ PressDraw(t) /\ UNCHANGED besideH
       \/ PressGuard(t) /\ UNCHANGED besideH
       \/ GuardWake(t) /\ UNCHANGED besideH
       \/ PressWait(t) /\ UNCHANGED besideH
       \/ WaitWake(t) /\ UNCHANGED besideH
       \/ PressDown(t) /\ UNCHANGED besideH
       \/ PressUp(t) /\ UNCHANGED besideH
       \/ PressRecord(t) /\ UNCHANGED besideH
       \/ Reset(t) /\ UNCHANGED besideH
       \/ CallerSleep(t) /\ UNCHANGED besideH
       \/ CallerWake(t) /\ UNCHANGED besideH
  \/ Tick /\ UNCHANGED besideH

SpecH == SpecHInit /\ [][SpecHNext]_vars

\* a single caller pressing and resetting often enough to fill the ring of
\* recent hold durations, with every completed press and every reset observed
RInit ==
  /\ h_fp = FpThin
  /\ h_hit_count = 0
  /\ h_last_press_age = NoTime
  /\ h_recent = << >>
  /\ h_lock = NoThread
  /\ h_pc = [t \in Threads |-> "idle"]
  /\ h_loc = [t \in Threads |-> NoLocals]
  /\ h_left = [t \in Threads |-> 0]
  /\ h_res = [t \in Threads |-> NoResult]
  /\ h_calls = 0
  /\ h_rel_age = NoTime
  /\ r_hist = << >>
  /\ r_reset = FALSE

SpecRInit == RInit /\ BQuiet /\ LQuiet /\ FQuiet /\ QQuiet /\ UQuiet

SpecRNext ==
  \/ \E t \in Threads :
       \/ PressBegin(t) /\ UNCHANGED rvars /\ UNCHANGED besideR
       \/ PressDraw(t) /\ UNCHANGED rvars /\ UNCHANGED besideR
       \/ PressGuard(t) /\ UNCHANGED rvars /\ UNCHANGED besideR
       \/ GuardWake(t) /\ UNCHANGED rvars /\ UNCHANGED besideR
       \/ PressWait(t) /\ UNCHANGED rvars /\ UNCHANGED besideR
       \/ WaitWake(t) /\ UNCHANGED rvars /\ UNCHANGED besideR
       \/ PressDown(t) /\ UNCHANGED rvars /\ UNCHANGED besideR
       \/ PressUp(t) /\ UNCHANGED rvars /\ UNCHANGED besideR
       \/ PressRecord(t) /\ r_hist' = Append(r_hist, h_loc[t].press_dur)
            /\ UNCHANGED r_reset /\ UNCHANGED besideR
       \/ Reset(t) /\ r_hist' = << >> /\ r_reset' = TRUE /\ UNCHANGED besideR
       \/ CallerSleep(t) /\ UNCHANGED rvars /\ UNCHANGED besideR
       \/ CallerWake(t) /\ UNCHANGED rvars /\ UNCHANGED besideR
  \/ Tick /\ UNCHANGED rvars /\ UNCHANGED besideR

SpecR == SpecRInit /\ [][SpecRNext]_vars

\* two threads calling press on one Humanizer, with no reset; r_hist holds
\* the hold duration of every call that has returned
PInit ==
  /\ h_fp = FpPair
  /\ h_hit_count = 0
  /\ h_last_press_age = NoTime
  /\ h_recent = << >>
  /\ h_lock = NoThread
  /\ h_pc = [t \in ThreadPair |-> "idle"]
  /\ h_loc = [t \in ThreadPair |-> NoLocals]
  /\ h_left = [t \in ThreadPair |-> 0]
  /\ h_res = [t \in ThreadPair |-> NoResult]
  /\ h_calls = 0
  /\ h_rel_age = NoTime
  /\ r_hist = << >>
  /\ r_reset = FALSE

SpecPInit == PInit /\ BQuiet /\ LQuiet /\ FQuiet /\ QQuiet /\ UQuiet

SpecPNext ==
  \/ \E t \in ThreadPair :
       \/ PressBegin(t) /\ UNCHANGED rvars /\ UNCHANGED besideR
       \/ PressDraw(t) /\ UNCHANGED rvars /\ UNCHANGED besideR
       \/ PressGuard(t) /\ UNCHANGED rvars /\ UNCHANGED besideR
       \/ GuardWake(t) /\ UNCHANGED rvars /\ UNCHANGED besideR
       \/ PressWait(t) /\ UNCHANGED rvars /\ UNCHANGED besideR
       \/ WaitWake(t) /\ UNCHANGED rvars /\ UNCHANGED besideR
       \/ PressDown(t) /\ UNCHANGED rvars /\ UNCHANGED besideR
       \/ PressUp(t) /\ UNCHANGED rvars /\ UNCHANGED besideR
       \/ RecordRead(t) /\ UNCHANGED rvars /\ UNCHANGED besideR
       \/ RecordWrite(t) /\ r_hist' = Append(r_hist, h_loc[t].press_dur)
            /\ UNCHANGED r_reset /\ UNCHANGED besideR
       \/ CallerSleep(t) /\ UNCHANGED rvars /\ UNCHANGED besideR
       \/ CallerWake(t) /\ UNCHANGED rvars /\ UNCHANGED besideR
  \/ TickPair /\ UNCHANGED rvars /\ UNCHANGED besideR

SpecP == SpecPInit /\ [][SpecPNext]_vars

\* the import of directkeys followed by PressKey/ReleaseKey calls
SpecBInit == BInit /\ HQuiet /\ LQuiet /\ FQuiet /\ RQuiet /\ QQuiet /\ UQuiet

SpecBNext ==
  \/ ImportWin32 /\ UNCHANGED besideB
  \/ ImportPynput /\ UNCHANGED besideB
  \/ ProbeUinput /\ UNCHANGED besideB
  \/ DefineKeys /\ UNCHANGED besideB
  \/ PressKey /\ UNCHANGED besideB
  \/ ReleaseKey /\ UNCHANGED besideB
  \/ CallGetController /\ UNCHANGED besideB
  \/ Shutdown /\ UNCHANGED besideB

SpecB == SpecBInit /\ [][SpecBNext]_vars

\* one of the two programs running its control loop
SpecLInit == LInit /\ HQuiet /\ BQuiet /\ FQuiet /\ RQuiet /\ QQuiet /\ UQuiet

SpecLNext ==
  \/ TuiSettings /\ UNCHANGED besideL
  \/ TuiLoad /\ UNCHANGED besideL
  \/ TuiArm /\ UNCHANGED besideL
  \/ TuiLoopHead /\ UNCHANGED besideL
  \/ TuiGrab /\ UNCHANGED besideL
  \/ TuiPredict /\ UNCHANGED besideL
  \/ TuiAnte /\ UNCHANGED besideL
  \/ TuiPress /\ UNCHANGED besideL
  \/ TuiEmit /\ UNCHANGED besideL
  \/ TuiCooldown /\ UNCHANGED besideL
  \/ TuiFps /\ UNCHANGED besideL
  \/ TuiFinally /\ UNCHANGED besideL
  \/ TuiSigint /\ UNCHANGED besideL
  \/ WebRun /\ UNCHANGED besideL
  \/ WebLoopHead /\ UNCHANGED besideL
  \/ WebGrab /\ UNCHANGED besideL
  \/ WebPredict /\ UNCHANGED besideL
  \/ WebAnte /\ UNCHANGED besideL
  \/ WebPress /\ UNCHANGED besideL
  \/ WebEmit /\ UNCHANGED besideL
  \/ WebCooldown /\ UNCHANGED besideL
  \/ WebFps /\ UNCHANGED besideL
  \/ WebFinally /\ UNCHANGED besideL
  \/ WebStop /\ UNCHANGED besideL

SpecL == SpecLInit /\ [][SpecLNext]_vars

\* load_fingerprint called again and again over one fingerprint file
SpecFInit == FInit /\ HQuiet /\ BQuiet /\ LQuiet /\ RQuiet /\ QQuiet /\ UQuiet

SpecFNext ==
  \/ LoadFingerprint /\ UNCHANGED besideF
  \/ ConstructGiven /\ UNCHANGED besideF

SpecF == SpecFInit /\ [][SpecFNext]_vars

\* _fatigue_factor evaluated on one set of arguments
SpecQInit == QInit /\ HQuiet /\ BQuiet /\ LQuiet /\ FQuiet /\ RQuiet /\ UQuiet

SpecQNext == EvalFatigue /\ UNCHANGED besideQ

SpecQ == SpecQInit /\ [][SpecQNext]_vars

\* the terminal UI with its three threads
SpecUInit ==
  UInit /\ HQuiet /\ BQuiet /\ LQuiet /\ FQuiet /\ RQuiet /\ QQuiet

SpecUNext ==
  \/ UConstruct /\ UNCHANGED besideU
  \/ UInstall /\ UNCHANGED besideU
  \/ USettings /\ UNCHANGED besideU
  \/ UJoin /\ UNCHANGED besideU
  \/ ULoad /\ UNCHANGED besideU
  \/ UArm /\ UNCHANGED besideU
  \/ UHead /\ UNCHANGED besideU
  \/ UFrame /\ UNCHANGED besideU
  \/ UPress /\ UNCHANGED besideU
  \/ UHits /\ UNCHANGED besideU
  \/ UFps /\ UNCHANGED besideU
  \/ UFinally /\ UNCHANGED besideU
  \/ USummary /\ UNCHANGED besideU
  \/ USigint /\ UNCHANGED besideU
  \/ ConsentPress /\ UNCHANGED besideU
  \/ ConsentRelease /\ UNCHANGED besideU
  \/ UiStats /\ UNCHANGED besideU
  \/ UiStatsEnd /\ UNCHANGED besideU
  \/ UiProbs /\ UNCHANGED besideU
  \/ UiStatus /\ UNCHANGED besideU
  \/ UiWhile /\ UNCHANGED besideU

SpecU == SpecUInit /\ [][SpecUNext]_vars

\* ------------------------------------------------ claims on the control loops

\* C9: whenever the control loop has ended, whatever the cause, the model
\* object, and with it the classifier and the capture, has been released by
\* the time the session is STOPPED; in the terminal loop and in the web loop.
C9_ReleasedWhenStopped ==
  /\ (l_ui = "tui" /\ t_pc = "stopped") => ~t_ai_model
  /\ (l_ui = "web" /\ a_pc = "stopped") => ~WebHeld(a_runs)

\* C10: once the stop signal has been raised while the session is RUNNING
\* (SIGINT in the terminal UI, the STOP button in the web UI), the loop starts
\* no further iteration.
C10_StopEndsLoop ==
  [][ /\ (l_ui = "tui" /\ t_stop /\ t_pc = "loop_head") => t_pc' # "grab"
      /\ (l_ui = "web" /\ a_stop /\ a_pc = "loop_head") => a_pc' # "grab" ]_vars

\* the loop that runs, as (position, iteration)
LoopPc == IF l_ui = "tui" THEN t_pc ELSE a_pc

LoopIter == IF l_ui = "tui" THEN t_iter ELSE a_iter

\* the states of an iteration after predict has returned for its frame
AfterPredict == {"ante", "press", "emit", "cooldown", "fps"}

\* the loop has done all it does for the frame of the current iteration
FrameDone == LoopPc \in {"cooldown", "fps"} \/ LoopIter.exit = "press"

\* C11: for each frame the loop has dealt with, it made exactly one press call
\* and emitted exactly one action event when the frame's should-act flag was
\* true, and made no press call and emitted no action event otherwise.
C11_OneEventPerActFrame ==
  FrameDone =>
    /\ LoopIter.presses = (IF LoopIter.should_hit THEN 1 ELSE 0)
    /\ LoopIter.events = LoopIter.presses

\* C12: once the frame source has raised during a frame pull, the loop is in
\* its stopping path or stopped: it pulls no further frame and the exception
\* does not leave the loop uncaught.
C12_GrabFailureEndsSession ==
  LoopIter.exit = "grab" => LoopPc \in {"finally", "stopped"}

\* the web session was stopped by a failure of the frame source
C12_Witness ==
  /\ l_ui = "web" /\ a_pc = "stopped" /\ a_iter.exit = "grab"

\* C13 as claimed: a frame whose read was bad is skipped: it is not
\* classified and no press is made for it.
C13_BadFrameSkipped ==
  LoopIter.read = "bad" =>
    /\ LoopPc \notin AfterPredict
    /\ LoopIter.presses = 0

\* C13 as amended: a bad read does not end the session and is not skipped:
\* the frame source hands over an all-zero frame, which is classified like
\* any other frame, and a press is made for it exactly when the classifier
\* reports should-act.
C13_BadFrameClassified ==
  LoopIter.read = "bad" =>
    /\ LoopIter.frame = "zeros"
    /\ LoopIter.exit # "grab"
    /\ LoopPc \in {"predict", "loop_head"} \cup AfterPredict \cup {"finally", "stopped"}
    /\ LoopIter.presses > 0 => LoopIter.should_hit

\* a press was made for the all-zero frame of a bad read
C13_Witness ==
  /\ LoopIter.read = "bad"
  /\ LoopIter.frame = "zeros"
  /\ LoopPc = "cooldown"
  /\ LoopIter.events = 1

\* C21: with a negative ante-frontier delay the press for a priority-class
\* detection is issued earlier than it is with a delay of zero: the offset
\* the ante-frontier step gives the press is below zero.
C21_NegativeActsEarlier ==
  ( /\ LoopPc \in {"press", "emit", "cooldown"}
    /\ LoopIter.should_hit /\ LoopIter.pred = PriorityClass
    /\ l_hit_ante < 0 )
  => LoopIter.ante < 0

\* the steps of a should-act iteration, with and without the ante sleep
ActSteps(slept) ==
  IF slept THEN << "pull", "ante", "press", "event", "cooldown", "reset" >>
  ELSE << "pull", "press", "event", "cooldown", "reset" >>

IsPrefix(a, b) == Len(a) <= Len(b) /\ a = SubSeq(b, 1, Len(a))

\* C22: in every iteration where should-act is true the steps come in this
\* order: the frame pull, the ante sleep (only when the predicted class is
\* the priority class and the configured delay is positive), the press
\* returning, the action event, the cooldown sleep, the reset of the
\* throughput window; nothing else comes in between, no frame is pulled
\* after the press, and an iteration that comes back to the head of the
\* loop has done all of them.
C22_StepsInOrder ==
  LoopIter.should_hit =>
    LET slept == LoopIter.pred = PriorityClass /\ l_hit_ante > 0
    IN  /\ IsPrefix(LoopIter.steps, ActSteps(slept))
        /\ LoopPc = "emit" => Last(LoopIter.steps) = "press"
        /\ LoopPc = "cooldown" => Last(LoopIter.steps) = "event"
        /\ LoopPc = "loop_head" => LoopIter.steps = ActSteps(slept)

\* an iteration with the ante sleep has gone through all six steps
C22_Witness ==
  /\ LoopPc = "loop_head"
  /\ LoopIter.should_hit
  /\ LoopIter.steps = ActSteps(TRUE)

\* --------------------------------------------- claims on the fingerprint file

\* what a call returned is a complete fingerprint: an object with every
\* field _generate_fingerprint writes
Complete(value) == value.kind = "object" /\ DOMAIN value.obj = DOMAIN FpFull

\* C14: whatever the state of the fingerprint file, load_fingerprint raises
\* nothing and returns a complete fingerprint.
C14_LoadAlwaysComplete ==
  \A i \in 1..Len(f_results) :
    f_results[i].call = "load" =>
      /\ f_results[i].status = "returned"
      /\ Complete(f_results[i].value)

\* C20 as claimed: once a load has generated a fingerprint, every later load
\* returns that same fingerprint.
C20_GeneratedOnce ==
  \A i, j \in 1..Len(f_results) :
    (i < j /\ f_results[i].generated /\ f_results[j].call = "load") =>
      /\ f_results[j].status = "returned"
      /\ f_results[j].value = f_results[i].value

\* C20 as amended: a fingerprint is generated only by a load that found no
\* valid record in the file; once a load has generated a fingerprint and
\* its save has gone through, every later load returns that same
\* fingerprint and generates nothing. A generated fingerprint whose save
\* failed is not seen again.
C20_SavedOnce ==
  /\ \A i \in 1..Len(f_results) :
       f_results[i].generated => ~f_results[i].had_valid
  /\ \A i, j \in 1..Len(f_results) :
       (i < j /\ f_results[i].generated /\ f_results[i].saved
          /\ f_results[j].call = "load") =>
         /\ f_results[j].status = "returned"
         /\ f_results[j].value = f_results[i].value
         /\ ~f_results[j].generated

\* a fingerprint whose save failed was followed by another one, saved, which
\* a later load returned
C20_Witness ==
  /\ Len(f_results) = 3
  /\ f_results[1].generated /\ ~f_results[1].saved
  /\ f_results[2].generated /\ f_results[2].saved
  /\ f_results[3].call = "load" /\ f_results[3].value = f_results[2].value
  /\ f_results[2].value # f_results[1].value

\* ------------------------------------------------ claims on the ring

\* the most recent n entries of a sequence, oldest first
LastN(seq, n) == SubSeq(seq, Max2(1, Len(seq) - n + 1), Len(seq))

\* C15: after any sequence of press and reset calls the ring holds at most
\* MaxRecent entries, and they are, oldest first, the hold durations of the
\* most recent min(n, MaxRecent) presses completed since construction or
\* the last reset.
C15_RingKeepsLastSix ==
  /\ Len(h_recent) <= MaxRecent
  /\ h_recent = LastN(r_hist, MaxRecent)

\* a seventh press has completed and has pushed the first one out
C15_Witness ==
  /\ Len(r_hist) = MaxRecent + 1
  /\ Len(h_recent) = MaxRecent
  /\ h_recent[1] = r_hist[2]

\* ------------------------------------------------ claims on the fatigue

\* C19: the fatigue multiplier is exactly 1.0 for a hit count below
\* fatigue_onset, and never below 1.0 for any hit count, whatever the sine
\* term between -fatigue_wave_amp and +fatigue_wave_amp.
C19_FatigueAtLeastOne ==
  q_out # NoValue =>
    /\ q_out >= Unit
    /\ q_in.hits < q_in.fp.fatigue_onset => q_out = Unit

\* past the onset the wave pulled the ramp below 1.0 and the floor held
C19_Witness ==
  /\ q_out = Unit
  /\ q_in.hits >= q_in.fp.fatigue_onset
  /\ q_in.fp.fatigue_max > Unit
  /\ q_in.wave < 0
  /\ FatigueUnfloored(q_in.fp, q_in.hits, q_in.wave) < Unit

\* ------------------------------------------------ claims on the duration step

\* C26: the hold duration the duration step returns, after the anti-repeat
\* jitter and before the fatigue multiplier is applied, lies within
\* [press_min, press_max], whatever the ring holds.
C26_JitterReclamped ==
  \A t \in Threads :
    Drawn(t) =>
      /\ h_loc[t].jittered >= h_fp.press_min
      /\ h_loc[t].jittered <= h_fp.press_max

\* C27: every press call that has ended, by returning or otherwise, has
\* invoked the press primitive exactly once and then the release primitive
\* exactly once, and has left the key released.
C27_PressThenRelease ==
  \A t \in Threads :
    h_res[t].status \in {"returned", "raised"} =>
      /\ h_res[t].downs = 1
      /\ h_res[t].ups = 1
      /\ h_res[t].key = "up"

\* ------------------------------------------------ claims on reset

\* C28: reset clears last_press_time with hit_count and the ring, so that no
\* press made between a reset and the next completed press is delayed by
\* the minimum inter-press guard; and reset leaves the fingerprint as it is.
C28_ResetClearsGuard ==
  /\ h_fp = FpThin
  /\ h_hit_count = 0 =>
       /\ h_last_press_age = NoTime
       /\ h_recent = << >>
       /\ \A t \in Threads : h_pc[t] # "guard_sleep"

\* the first press after a reset holds the key: it has gone past the guard
\* without a sleep
C28_Witness ==
  /\ r_reset
  /\ h_hit_count = 0
  /\ r_hist = << >>
  /\ \E t \in Threads : Held(t) /\ h_loc[t].gap = NoTime

\* ------------------------------------------------ claims on several threads

\* C23: when two threads call press on one Humanizer, no press primitive is
\* invoked while another call holds the key (after its press primitive and
\* before its release primitive), and every press primitive that follows a
\* release comes at least min_inter_press after it.
C23_PressesSerialised ==
  /\ \A t, u \in ThreadPair : (t # u /\ Held(t)) => ~Held(u)
  /\ \A t \in ThreadPair :
       (Held(t) /\ h_loc[t].gap # NoTime) => h_loc[t].gap >= h_fp.min_inter_press

\* C24: with no reset, hit_count equals the number of press calls that have
\* returned, whatever the interleaving: every call that returns has raised
\* it by exactly one.
C24_HitCountExact == h_hit_count = Len(r_hist)

\* each of the two threads has had a call return
C24_Witness ==
  /\ Len(r_hist) = MaxPairCalls
  /\ \A t \in ThreadPair : h_res[t].status = "returned" /\ h_pc[t] = "returned"

\* ------------------------------------- claims on the terminal UI's threads

\* C25: while the control loop and the UI thread are both alive, every read
\* and every write of fps, the hit count, the last probabilities and the
\* running flag is made by a thread that is inside a lock block.
C25_SharedUnderLock == \A a \in u_log : a.held

\* C29: by the time the loop invokes its first Humanizer.press the consent
\* thread has finished its press/release cycle: no dummy press or release
\* overlaps with or follows a press of the loop.
C29_ConsentDoneBeforePress ==
  u_pressed => u_consent \in {"none", "done"}

\* C30: when SIGINT has been delivered after run() has begun and before the
\* loop is entered, the loop pulls and classifies no frame.
C30_EarlyStopKept == u_early => u_frames = 0
====
